---- MODULE Spec2Model ----
(***************************************************************************)
(* A model of the VDATABPro virtual machine monitor core:                  *)
(*   - the cascaded 8259A interrupt controller pair (devices/pic.go),      *)
(*   - the VM container and the VCPU run loop (core_engine/vm.go, vcpu.go),*)
(*   - the NE2000 register file (devices/ne2000.go),                       *)
(*   - the 8254 interval timer (devices/pit.go),                           *)
(*   - the port I/O bus and the port map of the VM (devices/iobus.go),     *)
(*   - the serial port, the RTC and the keyboard controller.               *)
(* Registers are integers of the width the Go code gives them (uint8 is    *)
(* 0..255, uint16 is 0..65535); bit operations are computed bit by bit.    *)
(***************************************************************************)
EXTENDS Integers, Sequences, FiniteSets, TLC

VARIABLES
    pic,        \* PICDevice: [master, slave], each a PICController record
    picRet,     \* what the last PIC operation returned: a vector after
                \* GetInterruptVector, NoRet after any other operation
    scen,       \* progress of the cascade scenario raise 0, 3, 10, get, get, get
    vm,         \* VirtualMachine: stop channel, resources, Run's position
    vcpu,       \* per VCPU: position in VCPU.Run, its result, its ticker
    ne,         \* NE2000Device registers
    neOp,       \* the kind of the last NE2000 port access
    neRet,      \* the byte the last NE2000 access left in data[0], or NoRet
    neIrq,      \* level of the NIC interrupt line as driven through irqRaiser
    neTbcr,     \* the bytes the guest last wrote to TBCR0 and TBCR1
    neTap,      \* the packets handed to the host interface by WritePacket
    neReads,    \* how many bytes the guest has read from an armed data port
    pit,        \* PITDevice: counters and readWriteLatch
    pitRet,     \* the byte the last PIT counter-port read returned, or NoRet
    pitMon,     \* progress of a latch command followed by two reads
    bus,        \* IOBus.ports: the map from port to device
    busPc,      \* how many RegisterDevice calls NewVirtualMachine has made
    busLog,     \* the last IOBus.HandleIO call: device calls made, result
    uart,       \* SerialPortDevice registers and the bytes its writer received
    uartRet,    \* the byte the last UART read returned, or NoRet
    uartLog,    \* the <<offset, value>> pairs the guest wrote to COM1, in order
    rtc,        \* RTCDevice: registers, index, configuration flags
    rtcRet,     \* the byte the last RTC read returned, or NoRet
    run,        \* VCPU 0 inside VCPU.Run: position, last exit, result
    kbd,        \* KeyboardDevice: the buffer of typed characters
    acc         \* the last port access made with some width: what it returned

vars == <<pic, picRet, scen, vm, vcpu, ne, neOp, neRet, neIrq, neTbcr, neTap, neReads,
          pit, pitRet, pitMon, bus, busPc, busLog,
          uart, uartRet, uartLog, rtc, rtcRet, run, kbd, acc>>
picVars == <<pic, picRet, scen>>
vmVars == <<vm, vcpu>>
neVars == <<ne, neOp, neRet, neIrq, neTbcr, neTap, neReads>>
pitVars == <<pit, pitRet, pitMon>>
busVars == <<bus, busPc, busLog>>
uartVars == <<uart, uartRet, uartLog>>
rtcVars == <<rtc, rtcRet>>
kbdVars == <<kbd, acc>>
devVars == <<uartVars, rtcVars, run, kbdVars>>

(***************************************************************************)
(* uint8 arithmetic                                                        *)
(***************************************************************************)
Byte == 0..255

\* the powers of two of a byte's bit positions
Pow2 == <<1, 2, 4, 8, 16, 32, 64, 128>>

Bit(v, i) == (v \div Pow2[i + 1]) % 2

SetBit(v, i) == IF Bit(v, i) = 1 THEN v ELSE v + Pow2[i + 1]

ClrBit(v, i) == IF Bit(v, i) = 1 THEN v - Pow2[i + 1] ELSE v

\* Go's a & b on uint8, tabulated once
AndTable ==
    [a \in Byte |-> [b \in Byte |->
        LET t(i) == Bit(a, i) * Bit(b, i) * Pow2[i + 1]
        IN  t(0) + t(1) + t(2) + t(3) + t(4) + t(5) + t(6) + t(7)]]

BitAnd(a, b) == AndTable[a][b]

BitOr(a, b) == a + b - BitAnd(a, b)

\* Go's a &^ b on uint8
BitAndNot(a, b) == a - BitAnd(a, b)

\* uint8 addition wraps
Add8(a, b) == (a + b) % 256

\* the lowest index of a set bit of a non-zero byte: what the Go loops
\* "for i := 0; i < 8; i++ { if (v>>i)&1 != 0 { ...; break/return } }" find
LowestSetBit(v) == CHOOSE i \in 0..7 : Bit(v, i) = 1 /\ \A j \in 0..(i - 1) : Bit(v, j) = 0

(***************************************************************************)
(* PIC constants (pic_constants.go)                                        *)
(***************************************************************************)
PIC_MASTER_CMD_PORT == 32
PIC_MASTER_DATA_PORT == 33
PIC_SLAVE_CMD_PORT == 160
PIC_SLAVE_DATA_PORT == 161
PIC_MASTER_SLAVE_IRQ == 2
PIC_ICW1_IC4 == 1
PIC_ICW1_SNGL == 2
PIC_ICW1_LTIM == 8
PIC_ICW1_INIT == 16
PIC_ICW4_AEOI == 2
PIC_ICW4_SFNM == 16
PIC_OCW2_EOI_CMD == 32
PIC_OCW2_SL_CMD == 64
PIC_OCW3_RIS_CMD == 1
PIC_OCW3_RR_CMD == 2
PIC_OCW3_POLL_CMD == 4

(***************************************************************************)
(* PICController and PICDevice                                             *)
(***************************************************************************)
\* NewPICDevice: both chips masked, IC4 in the mode flags, everything else zero
NewPICController ==
    [offset |-> 0, imr |-> 255, irr |-> 0, isr |-> 0,
     icwCount |-> 0, expectOCW |-> FALSE, modeFlags |-> PIC_ICW1_IC4,
     sfnm |-> FALSE, autoEOI |-> FALSE, readRegSelect |-> 0]

NewPICDevice == [master |-> NewPICController, slave |-> NewPICController]

\* the ISR clearing of processOCW2 on one chip, without the forward to the slave
ClearISR(c, val) ==
    IF BitAnd(val, PIC_OCW2_EOI_CMD) = 0 THEN c
    ELSE IF BitAnd(val, PIC_OCW2_SL_CMD) # 0
         THEN [c EXCEPT !.isr = ClrBit(c.isr, BitAnd(val, 7))]
         ELSE IF c.isr = 0 THEN c
              ELSE [c EXCEPT !.isr = ClrBit(c.isr, LowestSetBit(c.isr))]

\* a faulty variant of ForwardsEOI: forwards for a specific EOI of the cascade
\* line as well
ForwardsEOI_AnyCascade(c, val) ==
    /\ BitAnd(val, PIC_OCW2_EOI_CMD) # 0
    /\ IF BitAnd(val, PIC_OCW2_SL_CMD) # 0
       THEN BitAnd(val, 7) = PIC_MASTER_SLAVE_IRQ /\ Bit(c.isr, PIC_MASTER_SLAVE_IRQ) = 1
       ELSE c.isr # 0 /\ LowestSetBit(c.isr) = PIC_MASTER_SLAVE_IRQ

\* whether processOCW2 on the master calls slave.processOCW2(PIC_OCW2_EOI_CMD, nil):
\* only in the non-specific branch, when the bit it cleared is the cascade line
ForwardsEOI(c, val) ==
    /\ BitAnd(val, PIC_OCW2_EOI_CMD) # 0
    /\ BitAnd(val, PIC_OCW2_SL_CMD) = 0
    /\ c.isr # 0
    /\ LowestSetBit(c.isr) = PIC_MASTER_SLAVE_IRQ

\* processOCW2 on chip `which` of device p; the slave is passed a nil slave
processOCW2(p, which, val) ==
    IF which = "master"
    THEN [p EXCEPT !.master = ClearISR(p.master, val),
                   !.slave = IF ForwardsEOI(p.master, val)
                             THEN ClearISR(p.slave, PIC_OCW2_EOI_CMD)
                             ELSE p.slave]
    ELSE [p EXCEPT !.slave = ClearISR(p.slave, val)]

processOCW3(c, val) ==
    IF BitAnd(val, PIC_OCW3_POLL_CMD) # 0 THEN c
    ELSE IF BitAnd(val, PIC_OCW3_RR_CMD) # 0
         THEN [c EXCEPT !.readRegSelect = BitAnd(val, PIC_OCW3_RIS_CMD) \div 2]
         ELSE c

\* a faulty variant of writeCommandPort: ICW1 leaves the mask and the
\* in-service register alone
writeCommandPort_KeepsMask(p, which, val) ==
    IF BitAnd(val, PIC_ICW1_INIT) # 0
    THEN [p EXCEPT ![which] =
            [@ EXCEPT !.icwCount = 1, !.expectOCW = FALSE, !.irr = 0,
                      !.modeFlags = BitAnd(val, PIC_ICW1_LTIM + PIC_ICW1_SNGL + PIC_ICW1_IC4),
                      !.autoEOI = FALSE, !.sfnm = FALSE]]
    ELSE LET q == IF BitAnd(val, 24) = 8
                  THEN [p EXCEPT ![which] = processOCW3(@, val)]
                  ELSE processOCW2(p, which, val)
         IN  [q EXCEPT ![which].expectOCW = TRUE]

writeCommandPort(p, which, val) ==
    IF BitAnd(val, PIC_ICW1_INIT) # 0
    THEN [p EXCEPT ![which] =
            [@ EXCEPT !.icwCount = 1, !.expectOCW = FALSE,
                      !.imr = 0, !.irr = 0, !.isr = 0,
                      !.modeFlags = BitAnd(val, PIC_ICW1_LTIM + PIC_ICW1_SNGL + PIC_ICW1_IC4),
                      !.autoEOI = FALSE, !.sfnm = FALSE]]
    ELSE LET q == IF BitAnd(val, 24) = 8
                  THEN [p EXCEPT ![which] = processOCW3(@, val)]
                  ELSE processOCW2(p, which, val)
         IN  [q EXCEPT ![which].expectOCW = TRUE]

\* a faulty variant of writeDataPort: a data byte is taken for the mask only
\* when an operation command word is expected
writeDataPort_OnlyOCW(c, val) ==
    IF c.expectOCW
    THEN [c EXCEPT !.imr = val]
    ELSE IF c.icwCount = 1
         THEN [c EXCEPT !.offset = val,
                        !.icwCount = IF BitAnd(c.modeFlags, PIC_ICW1_SNGL) # 0
                                     THEN (IF BitAnd(c.modeFlags, PIC_ICW1_IC4) = 0 THEN 0 ELSE 3)
                                     ELSE 2]
    ELSE IF c.icwCount = 2
         THEN [c EXCEPT !.icwCount = IF BitAnd(c.modeFlags, PIC_ICW1_IC4) = 0 THEN 0 ELSE 3]
    ELSE IF c.icwCount = 3
         THEN [c EXCEPT !.modeFlags = BitOr(@, val),
                        !.autoEOI = (BitAnd(val, PIC_ICW4_AEOI) # 0),
                        !.sfnm = (BitAnd(val, PIC_ICW4_SFNM) # 0),
                        !.icwCount = 0]
    ELSE c

writeDataPort(c, val) ==
    IF c.icwCount = 0 \/ c.expectOCW
    THEN [c EXCEPT !.imr = val]
    ELSE IF c.icwCount = 1
         THEN [c EXCEPT !.offset = val,
                        !.icwCount = IF BitAnd(c.modeFlags, PIC_ICW1_SNGL) # 0
                                     THEN (IF BitAnd(c.modeFlags, PIC_ICW1_IC4) = 0 THEN 0 ELSE 3)
                                     ELSE 2]
    ELSE IF c.icwCount = 2
         THEN [c EXCEPT !.icwCount = IF BitAnd(c.modeFlags, PIC_ICW1_IC4) = 0 THEN 0 ELSE 3]
    ELSE IF c.icwCount = 3
         THEN [c EXCEPT !.modeFlags = BitOr(@, val),
                        !.autoEOI = (BitAnd(val, PIC_ICW4_AEOI) # 0),
                        !.sfnm = (BitAnd(val, PIC_ICW4_SFNM) # 0),
                        !.icwCount = 0]
    ELSE c

readSelectedRegister(c) == IF c.readRegSelect = 0 THEN c.irr ELSE c.isr

readDataPort(c) == c.imr

\* PICDevice.HandleIO for a 1-byte OUT: the chip is chosen by the port
PortChip(port) == IF port \in {PIC_MASTER_CMD_PORT, PIC_MASTER_DATA_PORT} THEN "master" ELSE "slave"

PortIsCmd(port) == port \in {PIC_MASTER_CMD_PORT, PIC_SLAVE_CMD_PORT}

\* a faulty variant of PICWrite: every data-port byte is taken for the mask
PICWrite_DataIsMask(p, port, val) ==
    IF PortIsCmd(port)
    THEN writeCommandPort(p, PortChip(port), val)
    ELSE [p EXCEPT ![PortChip(port)].imr = val]

PICWrite(p, port, val) ==
    IF PortIsCmd(port)
    THEN writeCommandPort(p, PortChip(port), val)
    ELSE [p EXCEPT ![PortChip(port)] = writeDataPort(@, val)]

\* PICController.read through PICDevice.HandleIO: the byte an IN returns
PICRead(p, port) ==
    IF PortIsCmd(port)
    THEN readSelectedRegister(p[PortChip(port)])
    ELSE readDataPort(p[PortChip(port)])

\* a faulty variant of RaiseIRQ: a slave line requests the cascade line
\* whatever the master mask says
RaiseIRQ_CascadeUnmasked(p, irqLine) ==
    IF irqLine < 8
    THEN IF Bit(p.master.imr, irqLine) = 0
         THEN [p EXCEPT !.master.irr = SetBit(@, irqLine)]
         ELSE p
    ELSE IF irqLine < 16
    THEN IF Bit(p.slave.imr, irqLine - 8) = 0
         THEN [p EXCEPT !.slave.irr = SetBit(@, irqLine - 8),
                        !.master.irr = SetBit(@, PIC_MASTER_SLAVE_IRQ)]
         ELSE p
    ELSE p

RaiseIRQ(p, irqLine) ==
    IF irqLine < 8
    THEN IF Bit(p.master.imr, irqLine) = 0
         THEN [p EXCEPT !.master.irr = SetBit(@, irqLine)]
         ELSE p
    ELSE IF irqLine < 16
    THEN IF Bit(p.slave.imr, irqLine - 8) = 0
         THEN [p EXCEPT !.slave.irr = SetBit(@, irqLine - 8),
                        !.master.irr = IF Bit(p.master.imr, PIC_MASTER_SLAVE_IRQ) = 0
                                       THEN SetBit(@, PIC_MASTER_SLAVE_IRQ) ELSE @]
         ELSE p
    ELSE p

\* a line of chip c that is requested, unmasked and not in service
Candidate(c, i) == Bit(BitAndNot(c.irr, c.imr), i) = 1 /\ Bit(c.isr, i) = 0

HasPendingInterrupts(p) ==
    \/ /\ BitAndNot(p.slave.irr, p.slave.imr) # 0
       /\ Bit(p.master.imr, PIC_MASTER_SLAVE_IRQ) = 0
       /\ Bit(p.master.isr, PIC_MASTER_SLAVE_IRQ) = 0
       /\ \E i \in 0..7 : Candidate(p.slave, i)
    \/ \E i \in 0..7 : Candidate(p.master, i)

\* the master lines the first loop of GetInterruptVector can pick
MasterDirect(p) == {i \in 0..7 : i # PIC_MASTER_SLAVE_IRQ /\ Candidate(p.master, i)}

SlaveCands(p) == {i \in 0..7 : Candidate(p.slave, i)}

\* a faulty variant of Lowest: scans from line 7 down
Highest(S) == CHOOSE i \in S : \A j \in S : i >= j

\* the first hit of a loop "for i := 0; i < 8; i++" over the lines in S
Lowest(S) == CHOOSE i \in S : \A j \in S : i <= j

\* GetInterruptVector: the PIC after the call and the vector returned
GetInterruptVector(p) ==
    IF MasterDirect(p) # {}
    THEN LET i == Lowest(MasterDirect(p))
         IN  [pic |-> [p EXCEPT !.master.isr = IF p.master.autoEOI THEN @ ELSE SetBit(@, i),
                                !.master.irr = ClrBit(@, i)],
              vector |-> Add8(p.master.offset, i)]
    ELSE IF Candidate(p.master, PIC_MASTER_SLAVE_IRQ) /\ SlaveCands(p) # {}
    THEN LET i == Lowest(SlaveCands(p))
             sirr == ClrBit(p.slave.irr, i)
         IN  [pic |-> [p EXCEPT !.master.isr = IF p.master.autoEOI THEN @
                                               ELSE SetBit(@, PIC_MASTER_SLAVE_IRQ),
                                !.slave.isr = IF p.slave.autoEOI THEN @ ELSE SetBit(@, i),
                                !.slave.irr = sirr,
                                !.master.irr = IF BitAndNot(sirr, p.slave.imr) = 0
                                               THEN ClrBit(@, PIC_MASTER_SLAVE_IRQ) ELSE @],
              vector |-> Add8(p.slave.offset, i)]
    ELSE [pic |-> p, vector |-> 0]

(***************************************************************************)
(* The inputs the PIC specification draws from                             *)
(***************************************************************************)
\* lines raised by devices: two master lines, a slave line and one line
\* outside 0..15
IrqLines == {0, 3, 10, 16}

\* bytes the guest writes to a command port: ICW1 (cascade, ICW4 needed) and
\* non-specific EOI on either chip, specific EOI of lines 2 and 3 on the master
CmdVals(port) == IF port = PIC_MASTER_CMD_PORT THEN {17, 32, 98, 99} ELSE {17, 32}

\* a chip that has received ICW1 and still waits for initialization words
InInit(c) == c.icwCount # 0 /\ ~c.expectOCW

\* bytes the guest writes to a data port, by the word the chip takes them
\* for: ICW2 is the vector base of the chip (0x08 and 0x70), ICW3 the cascade
\* wiring (slave on IR2, slave identity 2), ICW4 is 8086 mode without or with
\* auto-EOI, and an IMR byte unmasks every line or (on the master) masks
\* line 0. The byte is drawn for the word the chip takes it for; the write
\* itself is made in every state of the PIC.
DataVals(port) ==
    LET c == pic[PortChip(port)]
    IN  IF ~InInit(c) THEN (IF port = PIC_MASTER_DATA_PORT THEN {0, 1} ELSE {0})
        ELSE IF c.icwCount = 1 THEN (IF port = PIC_MASTER_DATA_PORT THEN {8} ELSE {112})
        ELSE IF c.icwCount = 2 THEN (IF port = PIC_MASTER_DATA_PORT THEN {4} ELSE {2})
        ELSE {1, 3}

NoRet == 0 - 1

\* the scenario monitor: raise 0, raise 3, raise 10 from a quiet unmasked PIC
\* with auto-EOI off, then three acquisitions, with nothing in between
Quiet(p) ==
    /\ p.master.imr = 0 /\ p.slave.imr = 0
    /\ p.master.irr = 0 /\ p.slave.irr = 0
    /\ p.master.isr = 0 /\ p.slave.isr = 0
    /\ ~p.master.autoEOI /\ ~p.slave.autoEOI

ScenAfterRaise(line) ==
    IF line = 0 /\ Quiet(pic) THEN 1
    ELSE IF line = 3 /\ scen = 1 THEN 2
    ELSE IF line = 10 /\ scen = 2 THEN 3
    ELSE 0

ScenAfterGet == IF scen \in {3, 4, 5} THEN scen + 1 ELSE 0

(***************************************************************************)
(* PIC actions                                                             *)
(***************************************************************************)
PicRaise(line) ==
    /\ pic' = RaiseIRQ(pic, line)
    /\ picRet' = NoRet
    /\ scen' = ScenAfterRaise(line)
    /\ UNCHANGED <<vmVars, neVars, pitVars, busVars, devVars>>

PicGet ==
    /\ LET r == GetInterruptVector(pic)
       IN  pic' = r.pic /\ picRet' = r.vector
    /\ scen' = ScenAfterGet
    /\ UNCHANGED <<vmVars, neVars, pitVars, busVars, devVars>>

PicOutCmd(port, val) ==
    /\ pic' = PICWrite(pic, port, val)
    /\ picRet' = NoRet
    /\ scen' = 0
    /\ UNCHANGED <<vmVars, neVars, pitVars, busVars, devVars>>

PicOutData(port, val) ==
    /\ pic' = PICWrite(pic, port, val)
    /\ picRet' = NoRet
    /\ scen' = 0
    /\ UNCHANGED <<vmVars, neVars, pitVars, busVars, devVars>>

PicNext ==
    \/ \E line \in IrqLines : PicRaise(line)
    \/ PicGet
    \/ \E port \in {PIC_MASTER_CMD_PORT, PIC_SLAVE_CMD_PORT} : \E val \in CmdVals(port) : PicOutCmd(port, val)
    \/ \E port \in {PIC_MASTER_DATA_PORT, PIC_SLAVE_DATA_PORT} : \E val \in DataVals(port) : PicOutData(port, val)

\* the same operations with the inputs of a guest that works the slave chip:
\* two slave lines are raised, the slave mask unmasks every line or masks
\* line 0 (IRQ 8), and the EOI commands are the non-specific ones
SlaveLines == {8, 10}

SlaveCmdVals == {17, 32}

SlaveDataVals(port) ==
    LET c == pic[PortChip(port)]
    IN  IF InInit(c) THEN DataVals(port)
        ELSE IF port = PIC_MASTER_DATA_PORT THEN {0} ELSE {0, 1}

PicSlaveNext ==
    \/ \E line \in SlaveLines : PicRaise(line)
    \/ PicGet
    \/ \E port \in {PIC_MASTER_CMD_PORT, PIC_SLAVE_CMD_PORT} : \E val \in SlaveCmdVals : PicOutCmd(port, val)
    \/ \E port \in {PIC_MASTER_DATA_PORT, PIC_SLAVE_DATA_PORT} : \E val \in SlaveDataVals(port) : PicOutData(port, val)

(***************************************************************************)
(* The VM container and the VCPU run loop                                  *)
(***************************************************************************)
\* the number of VCPUs the VM is constructed with
NumVCPUs == 2

VCPUIds == 0..(NumVCPUs - 1)

\* the two copies of VCPU.Run in the repository
VcpuCopies == {"kvm.go", "vcpu.go"}

\* the VirtualMachine struct as NewVirtualMachine builds it, before the VCPU
\* loop: handles open, memory mapped, both channels made, no VCPU yet
NewVirtualMachine ==
    [phase |-> "constructing",  \* constructing, ready, failed
     copy |-> "kvm.go",         \* the copy of VCPU.Run the program is built with
     stopClosed |-> FALSE,      \* stopChan has been closed
     panicked |-> FALSE,        \* a goroutine panicked: the process is gone
     fault |-> "none",          \* the panic: close of closed channel, nil dereference
     vcpusRunning |-> 0,        \* elements buffered in the vcpusRunning channel
     runPc |-> "idle",          \* VirtualMachine.Run: idle, waiting, returned
     runI |-> 0,                \* the loop variable i of Run's wait loop
     runRet |-> "none",         \* what Run returned: none, nil, err
     closePc |-> "idle",        \* VirtualMachine.Close: idle, unmap, fd, release
     closeI |-> 0,              \* the VCPU the loop of Close has reached
     guestMemory |-> TRUE, tapDevice |-> TRUE, vmFD |-> TRUE, kvmFD |-> TRUE,
     munmaps |-> 0, tapCloses |-> 0, vmFDCloses |-> 0, kvmFDCloses |-> 0]

\* a VCPU slot before NewVCPU has filled it
NoVCPU ==
    [pc |-> "absent",           \* absent, created, head, has, get, inject, kvm,
                                \* done, signalled
     chk |-> "none",            \* the call of CheckForPendingInterrupts that is
                                \* running: tick, pre (before KVM_RUN), hlt
     vector |-> 0,              \* the vector GetInterruptVector returned
     injected |-> "none",       \* how the last KVM_INTERRUPT ioctl ended: ok, error
     ret |-> "none",            \* what VCPU.Run returned: none, nil, err
     ticker |-> FALSE,          \* the 10 ms ticker is running
     tick |-> FALSE,            \* a tick is buffered in ticker.C
     stopAtHead |-> FALSE,      \* stopChan was closed when the select last ran
     kvmRun |-> FALSE,          \* the kvm_run block is mapped, vcpu.kvmRun set
     fd |-> FALSE,              \* the VCPU file descriptor is open
     fdCloses |-> 0]

\* NewVCPU: the descriptor is open, the kvm_run block is mapped and the
\* 10 ms ticker is running
NewVCPU == [NoVCPU EXCEPT !.pc = "created", !.fd = TRUE, !.kvmRun = TRUE, !.ticker = TRUE]

Alive == ~vm.panicked

\* VCPU.Close up to the release of the kvm_run block: the ticker is stopped,
\* the block is unmapped and vcpu.kvmRun is set to nil
VCPUCloseUnmap(c) == [c EXCEPT !.ticker = FALSE, !.kvmRun = FALSE]

\* the rest of VCPU.Close: the descriptor is closed when it is set
VCPUCloseFd(c) == [c EXCEPT !.fd = FALSE, !.fdCloses = IF c.fd THEN @ + 1 ELSE @]

\* VCPU.Close: each release is guarded by the handle being set
VCPUClose(c) == IF c.pc = "absent" THEN c ELSE VCPUCloseFd(VCPUCloseUnmap(c))

\* VirtualMachine.Stop: close(vm.stopChan); closing a closed channel panics
Stop(m) ==
    IF m.stopClosed THEN [m EXCEPT !.panicked = TRUE, !.fault = "close of closed channel"]
    ELSE [m EXCEPT !.stopClosed = TRUE]

\* VirtualMachine.Close after its loop over the VCPUs: the guarded releases
ReleaseVM(m) ==
    [m EXCEPT !.guestMemory = FALSE, !.munmaps = IF m.guestMemory THEN @ + 1 ELSE @,
              !.tapDevice = FALSE, !.tapCloses = IF m.tapDevice THEN @ + 1 ELSE @,
              !.vmFD = FALSE, !.vmFDCloses = IF m.vmFD THEN @ + 1 ELSE @,
              !.kvmFD = FALSE, !.kvmFDCloses = IF m.kvmFD THEN @ + 1 ELSE @]

\* VirtualMachine.Close run to its end with no other goroutine in between:
\* Stop first; when Stop panics nothing else runs
Close(m) == IF Stop(m).panicked THEN Stop(m) ELSE ReleaseVM(Stop(m))

CloseVCPUs(m, cs) == IF Stop(m).panicked THEN cs ELSE [v \in VCPUIds |-> VCPUClose(cs[v])]

\* VirtualMachine.CheckForPendingInterrupts as far as the PIC is concerned,
\* run to its end with no other goroutine in between: only VCPU 0 asks, and
\* it acquires a vector when the PIC reports one pending
CheckForPendingInterrupts(p, id) ==
    IF id # 0 THEN p
    ELSE IF HasPendingInterrupts(p) THEN GetInterruptVector(p).pic
    ELSE p

(***************************************************************************)
(* NE2000 constants (ne2000_constants.go) and device (devices/ne2000.go)   *)
(***************************************************************************)
IODirectionIn == 0
IODirectionOut == 1
NE2000_REG_CR == 0
NE2000_REG_PSTART == 1
NE2000_REG_PSTOP == 2
NE2000_REG_BNRY == 3
NE2000_REG_TPSR == 4
NE2000_REG_TBCR0 == 5
NE2000_REG_TBCR1 == 6
NE2000_REG_ISR == 7
NE2000_REG_RSAR0 == 8
NE2000_REG_RSAR1 == 9
NE2000_REG_RBCR0 == 10
NE2000_REG_RBCR1 == 11
NE2000_REG_RCR == 12
NE2000_REG_TCR == 13
NE2000_REG_DCR == 14
NE2000_REG_IMR == 15
NE2000_REG_PAR0 == 1
NE2000_REG_CURR == 7
NE2000_REG_MAR0 == 8
NE2000_ASIC_OFFSET_DATA == 16
NE2000_ASIC_OFFSET_RESET == 31
CR_STP == 1
CR_STA == 2
CR_TXP == 4
CR_RD0 == 8
CR_RD1 == 16
CR_RD2 == 32
CR_PS0 == 64
CR_PS1 == 128
ISR_PRX == 1
ISR_PTX == 2
ISR_RXE == 4
ISR_TXE == 8
ISR_OVW == 16
ISR_RDC == 64
ISR_RST == 128
NE2000_MEM_SIZE == 16384
NE2000_PAGE_SIZE == 256
NE2000_TX_PAGE_START == 64
NE2000_TX_BUF_PAGES == 6
ne2000PromSize == 32
ne2000PacketRAMSize == 16384

NE2000_DEFAULT_MAC == <<0, 0, 0, 170, 187, 204>>

\* promData as NewNE2000Device fills it: each MAC byte twice, then 0xFF
promData(i) == IF i < 12 THEN NE2000_DEFAULT_MAC[(i \div 2) + 1] ELSE 255

NewNE2000Device ==
    [command |-> CR_STP + CR_RD2,
     pageStart |-> NE2000_TX_PAGE_START + NE2000_TX_BUF_PAGES,
     pageStop |-> (NE2000_MEM_SIZE \div NE2000_PAGE_SIZE) % 256,
     boundary |-> NE2000_TX_PAGE_START + NE2000_TX_BUF_PAGES,
     txStatus |-> 0,
     txPageStart |-> NE2000_TX_PAGE_START,
     isr |-> ISR_RST,
     rxStatus |-> 0,
     rxConfig |-> 4,
     txConfig |-> 0,
     dataConfig |-> 88,
     imr |-> 0,
     macAddress |-> NE2000_DEFAULT_MAC,
     currPage |-> NE2000_TX_PAGE_START + NE2000_TX_BUF_PAGES,
     mar |-> <<0, 0, 0, 0, 0, 0, 0, 0>>,
     dmaAddress |-> 0,
     dmaByteCount |-> 0,
     packetRAM |-> <<>>]

reset(d) ==
    [d EXCEPT !.command = CR_STP + CR_RD2,
              !.isr = ISR_RST,
              !.imr = 0,
              !.pageStart = NE2000_TX_PAGE_START + NE2000_TX_BUF_PAGES,
              !.pageStop = (NE2000_MEM_SIZE \div NE2000_PAGE_SIZE) % 256,
              !.boundary = NE2000_TX_PAGE_START + NE2000_TX_BUF_PAGES,
              !.currPage = NE2000_TX_PAGE_START + NE2000_TX_BUF_PAGES,
              !.txPageStart = NE2000_TX_PAGE_START,
              !.dataConfig = 88,
              !.txConfig = 0,
              !.rxConfig = 4]

\* the result of a handler: the device after it, the byte it left in data[0]
\* (NoRet when it wrote none) and whether it returned an error
IOResult(d, r, e) == [dev |-> d, ret |-> r, err |-> e]

\* a faulty variant of handleASICDataPort: reports completion at the first
\* read of a transfer instead of the last
handleASICDataPort_CompleteAtOnce(d, direction, val) ==
    IF BitAnd(d.command, CR_RD2) # 0
    THEN IOResult(d, IF direction = IODirectionIn THEN 255 ELSE NoRet, FALSE)
    ELSE IF direction = IODirectionIn
    THEN LET cnt == IF d.dmaByteCount > 0 THEN d.dmaByteCount - 1 ELSE 0
             complete == d.dmaByteCount > 0
         IN  IOResult([d EXCEPT !.dmaAddress = (@ + 1) % 65536,
                                !.dmaByteCount = cnt,
                                !.isr = IF complete THEN BitOr(@, ISR_RDC) ELSE @,
                                !.command = IF complete THEN BitOr(@, CR_RD2) ELSE @],
                      IF d.dmaAddress < ne2000PromSize THEN promData(d.dmaAddress) ELSE 255,
                      FALSE)
    ELSE IOResult(d, NoRet, TRUE)

handleASICDataPort(d, direction, val) ==
    IF BitAnd(d.command, CR_RD2) # 0
    THEN IOResult(d, IF direction = IODirectionIn THEN 255 ELSE NoRet, FALSE)
    ELSE IF direction = IODirectionIn
    THEN LET cnt == IF d.dmaByteCount > 0 THEN d.dmaByteCount - 1 ELSE 0
             complete == d.dmaByteCount > 0 /\ cnt = 0
         IN  IOResult([d EXCEPT !.dmaAddress = (@ + 1) % 65536,
                                !.dmaByteCount = cnt,
                                !.isr = IF complete THEN BitOr(@, ISR_RDC) ELSE @,
                                !.command = IF complete THEN BitOr(@, CR_RD2) ELSE @],
                      IF d.dmaAddress < ne2000PromSize THEN promData(d.dmaAddress) ELSE 255,
                      FALSE)
    ELSE IOResult(d, NoRet, TRUE)

\* a faulty variant of handleCommandRegister: the START branch leaves the
\* STOP bit alone
handleCommandRegister_StartKeepsStop(d, direction, val) ==
    IF direction = IODirectionIn
    THEN IOResult(d, d.command, FALSE)
    ELSE LET old == d.command
             d1 == [d EXCEPT !.command = val]
             d2 == IF BitAnd(val, CR_STP) # 0 /\ BitAnd(old, CR_STP) = 0
                   THEN [reset(d1) EXCEPT !.command = CR_STP + CR_RD2]
                   ELSE d1
             d3 == IF BitAnd(val, CR_STA) # 0 /\ BitAnd(old, CR_STA) = 0
                   THEN [d2 EXCEPT !.isr = BitAndNot(@, ISR_RST)]
                   ELSE d2
             d4 == IF BitAnd(val, CR_TXP) # 0
                   THEN [d3 EXCEPT !.command = BitAndNot(@, CR_TXP),
                                   !.isr = BitOr(@, ISR_PTX)]
                   ELSE d3
         IN  IOResult(d4, NoRet, FALSE)

handleCommandRegister(d, direction, val) ==
    IF direction = IODirectionIn
    THEN IOResult(d, d.command, FALSE)
    ELSE LET old == d.command
             d1 == [d EXCEPT !.command = val]
             d2 == IF BitAnd(val, CR_STP) # 0 /\ BitAnd(old, CR_STP) = 0
                   THEN [reset(d1) EXCEPT !.command = CR_STP + CR_RD2]
                   ELSE d1
             d3 == IF BitAnd(val, CR_STA) # 0 /\ BitAnd(old, CR_STA) = 0
                   THEN [d2 EXCEPT !.command = BitAndNot(@, CR_STP),
                                   !.isr = BitAndNot(@, ISR_RST)]
                   ELSE d2
             d4 == IF BitAnd(val, CR_TXP) # 0
                   THEN [d3 EXCEPT !.command = BitAndNot(@, CR_TXP),
                                   !.isr = BitOr(@, ISR_PTX)]
                   ELSE d3
         IN  IOResult(d4, NoRet, FALSE)

\* packetRAM is kept sparse: the cells that were ever written; every other
\* cell holds the zero Go gives a fresh array
RamAt(d, a) == IF a \in DOMAIN d.packetRAM THEN d.packetRAM[a] ELSE 0

\* the NIC is started: CR has START set and STOP clear
Started(d) == BitAnd(d.command, CR_STA) # 0 /\ BitAnd(d.command, CR_STP) = 0

\* the packets a CR write hands to tapDevice.WritePacket: the TXP branch of
\* handleCommandRegister acknowledges the command and never calls WritePacket
TxPackets(d, val) == <<>>

\* the receive path, for a packet P that the host interface delivers: no
\* function of the device reads the host interface, the device is unchanged
receivePacket(d, P) == d

\* a faulty variant of ClearISRBits: keeps the written bits instead
ClearISRBits_Keep(isr, val) == BitAnd(isr, val)

\* an access to ISR in any direction but IN: dev.isr &= ^data[0]
ClearISRBits(isr, val) == BitAndNot(isr, val)

\* a register that an OUT stores and an IN reads back as rd
P0Reg(d, direction, out, rd) ==
    IF direction = IODirectionOut THEN IOResult(out, NoRet, FALSE)
    ELSE IOResult(d, rd, FALSE)

handlePage0IO(d, offset, direction, val) ==
    CASE offset = NE2000_REG_PSTART -> P0Reg(d, direction, [d EXCEPT !.pageStart = val], 0)
      [] offset = NE2000_REG_PSTOP -> P0Reg(d, direction, [d EXCEPT !.pageStop = val], 0)
      [] offset = NE2000_REG_BNRY -> P0Reg(d, direction, [d EXCEPT !.boundary = val], d.boundary)
      [] offset = NE2000_REG_TPSR -> P0Reg(d, direction, [d EXCEPT !.txPageStart = val], d.txStatus)
      [] offset = NE2000_REG_TBCR0 -> P0Reg(d, direction, d, 0)
      [] offset = NE2000_REG_TBCR1 -> P0Reg(d, direction, d, 0)
      [] offset = NE2000_REG_ISR ->
           IF direction = IODirectionIn THEN IOResult(d, d.isr, FALSE)
           ELSE IOResult([d EXCEPT !.isr = ClearISRBits(@, val)], NoRet, FALSE)
      [] offset = NE2000_REG_RSAR0 ->
           P0Reg(d, direction, [d EXCEPT !.dmaAddress = (@ \div 256) * 256 + val], 0)
      [] offset = NE2000_REG_RSAR1 ->
           P0Reg(d, direction, [d EXCEPT !.dmaAddress = (@ % 256) + val * 256], 0)
      [] offset = NE2000_REG_RBCR0 ->
           P0Reg(d, direction, [d EXCEPT !.dmaByteCount = (@ \div 256) * 256 + val], 0)
      [] offset = NE2000_REG_RBCR1 ->
           P0Reg(d, direction, [d EXCEPT !.dmaByteCount = (@ % 256) + val * 256], 0)
      [] offset = NE2000_REG_RCR -> P0Reg(d, direction, [d EXCEPT !.rxConfig = val], d.rxStatus)
      [] offset = NE2000_REG_TCR -> P0Reg(d, direction, [d EXCEPT !.txConfig = val], 0)
      [] offset = NE2000_REG_DCR -> P0Reg(d, direction, [d EXCEPT !.dataConfig = val], 0)
      [] offset = NE2000_REG_IMR -> P0Reg(d, direction, [d EXCEPT !.imr = val], 0)
      [] OTHER -> IOResult(d, NoRet, TRUE)

handlePage1IO(d, offset, direction, val) ==
    IF offset >= NE2000_REG_PAR0 /\ offset < NE2000_REG_CURR
    THEN P0Reg(d, direction, [d EXCEPT !.macAddress[offset] = val], d.macAddress[offset])
    ELSE IF offset = NE2000_REG_CURR
    THEN P0Reg(d, direction, [d EXCEPT !.currPage = val], d.currPage)
    ELSE IF offset >= NE2000_REG_MAR0 /\ offset <= 15
    THEN P0Reg(d, direction, [d EXCEPT !.mar[offset - NE2000_REG_MAR0 + 1] = val],
               d.mar[offset - NE2000_REG_MAR0 + 1])
    ELSE IOResult(d, NoRet, TRUE)

\* the page the command register selects: (command & (PS0|PS1)) >> 6
pageSelect(d) == BitAnd(d.command, CR_PS0 + CR_PS1) \div 64

\* NE2000Device.HandleIO, by the offset of the port from NE2000_BASE_PORT
NE2000HandleIO(d, offset, direction, size, val) ==
    IF size # 1 THEN IOResult(d, NoRet, TRUE)
    ELSE IF offset = NE2000_ASIC_OFFSET_RESET
    THEN (IF direction = IODirectionIn THEN IOResult(d, 255, FALSE)
          ELSE IOResult(reset(d), NoRet, FALSE))
    ELSE IF offset = NE2000_ASIC_OFFSET_DATA THEN handleASICDataPort(d, direction, val)
    ELSE IF offset = NE2000_REG_CR THEN handleCommandRegister(d, direction, val)
    ELSE IF pageSelect(d) = 1 THEN handlePage1IO(d, offset, direction, val)
    ELSE handlePage0IO(d, offset, direction, val)

(***************************************************************************)
(* The inputs the NE2000 specification draws from, and its actions         *)
(***************************************************************************)
\* the guest reads at most this many bytes from the data port while a
\* remote DMA is armed: the twelve PROM reads of the MAC address and one
\* more
MaxDataReads == 13

\* command bytes: STOP, START, START with TXP, START with remote read,
\* START on page 1, START on page 2, STOP together with START (each but the
\* remote read with RD2)
NeCommands == {33, 34, 38, 10, 98, 162, 35}

\* the <<offset, value>> pairs the guest writes, by the selected page
NeOuts ==
    {<<NE2000_REG_CR, c>> : c \in NeCommands}
    \cup {<<NE2000_ASIC_OFFSET_RESET, 0>>, <<NE2000_ASIC_OFFSET_DATA, 0>>}
    \cup (IF pageSelect(ne) = 1
          THEN {<<NE2000_REG_PAR0, 82>>, <<NE2000_REG_CURR, 71>>}
          ELSE {<<NE2000_REG_ISR, w>> : w \in {ISR_PTX, ISR_RDC, ISR_RST}}
               \cup {<<NE2000_REG_IMR, m>> : m \in {0, ISR_PTX, ISR_RST + ISR_RDC + ISR_PTX}}
               \cup {<<NE2000_REG_RBCR0, 2>>, <<NE2000_REG_RSAR0, 0>>})

\* the offsets the guest reads
NeIns == {NE2000_REG_CR, NE2000_REG_ISR, NE2000_REG_IMR, NE2000_ASIC_OFFSET_RESET}

\* neOp names the last access: a 1-byte OUT to ISR or to IMR of page 0 (pages
\* 2 and 3 fall back to page 0), any other OUT, or an IN
OutKind(d, offset) ==
    IF pageSelect(d) # 1 /\ offset = NE2000_REG_ISR THEN "out-isr"
    ELSE IF pageSelect(d) # 1 /\ offset = NE2000_REG_IMR THEN "out-imr"
    ELSE "out"

\* the transmit byte count as the guest programmed it: the device does not
\* store TBCR0 and TBCR1, so the guest's last writes are kept here; a reset or
\* a STOP command makes them unknown (NoRet)
TbcrAfter(offset, val) ==
    IF offset = NE2000_ASIC_OFFSET_RESET \/ (offset = NE2000_REG_CR /\ BitAnd(val, CR_STP) # 0)
    THEN [lo |-> NoRet, hi |-> NoRet]
    ELSE IF offset = NE2000_REG_TBCR0 /\ pageSelect(ne) # 1 THEN [neTbcr EXCEPT !.lo = val]
    ELSE IF offset = NE2000_REG_TBCR1 /\ pageSelect(ne) # 1 THEN [neTbcr EXCEPT !.hi = val]
    ELSE neTbcr

\* a 1-byte OUT. The device never calls irqRaiser, so the line keeps its level.
NeOut(offset, val) ==
    /\ LET r == NE2000HandleIO(ne, offset, IODirectionOut, 1, val)
       IN  ne' = r.dev /\ neRet' = r.ret
    /\ neOp' = OutKind(ne, offset)
    /\ neTbcr' = TbcrAfter(offset, val)
    /\ neTap' = IF offset = NE2000_REG_CR THEN neTap \o TxPackets(ne, val) ELSE neTap
    /\ UNCHANGED <<neIrq, neReads, picVars, vmVars, pitVars, busVars, devVars>>

\* a read of the data port that handleASICDataPort serves from the PROM
ArmedRead(d, offset) ==
    offset = NE2000_ASIC_OFFSET_DATA /\ BitAnd(d.command, CR_RD2) = 0

\* a 1-byte IN; neReads counts the reads of an armed data port
NeIn(offset) ==
    /\ ArmedRead(ne, offset) => neReads < MaxDataReads
    /\ LET r == NE2000HandleIO(ne, offset, IODirectionIn, 1, 0)
       IN  ne' = r.dev /\ neRet' = r.ret
    /\ neOp' = "in"
    /\ neReads' = IF ArmedRead(ne, offset) THEN neReads + 1 ELSE neReads
    /\ UNCHANGED <<neIrq, neTap, neTbcr, picVars, vmVars, pitVars, busVars, devVars>>

\* an access of another size: refused, nothing changes
NeBadSize(offset, direction) ==
    /\ LET r == NE2000HandleIO(ne, offset, direction, 2, 0)
       IN  ne' = r.dev /\ neRet' = r.ret
    /\ neOp' = "refused"
    /\ UNCHANGED <<neIrq, neTap, neTbcr, neReads, picVars, vmVars, pitVars, busVars, devVars>>

NeNext ==
    \/ \E p \in NeOuts : NeOut(p[1], p[2])
    \/ \E offset \in NeIns : NeIn(offset)
    \/ \E direction \in {IODirectionIn, IODirectionOut} : NeBadSize(NE2000_REG_ISR, direction)

(***************************************************************************)
(* The NE2000 read through its data port: the guest programs a remote      *)
(* read of the PROM and fetches the bytes                                  *)
(***************************************************************************)
\* command bytes: STOP with the DMA aborted, the remote read of
\* TestNE2000_PROMMACAddressRead, START with a remote read
PromCommands == {CR_STP + CR_RD2, CR_RD1 + CR_STP, CR_STA + CR_RD0}

\* the <<offset, value>> pairs the guest writes: a start address at the
\* head of the PROM, behind it or (with the high byte) at the top of the
\* address space, a byte count, the acknowledgement of a completed transfer
PromOuts ==
    {<<NE2000_REG_CR, c>> : c \in PromCommands}
    \cup {<<NE2000_REG_RSAR0, 0>>, <<NE2000_REG_RSAR0, 250>>, <<NE2000_REG_RSAR1, 255>>}
    \cup {<<NE2000_REG_RBCR0, 2>>, <<NE2000_REG_RBCR0, 12>>}
    \cup {<<NE2000_REG_ISR, ISR_RDC>>}

\* the offsets the guest reads
PromIns == {NE2000_ASIC_OFFSET_DATA, NE2000_REG_ISR}

PromNext ==
    \/ \E p \in PromOuts : NeOut(p[1], p[2])
    \/ \E offset \in PromIns : NeIn(offset)

(***************************************************************************)
(* The NE2000 as a network interface: the guest programs the transmit      *)
(* registers and the receive ring, the host interface delivers packets     *)
(***************************************************************************)
\* command bytes of the driver: STOP, START, START with TXP, START on page 1
\* (each with RD2)
NicCommands == {33, 34, 38, 98}

\* the <<offset, value>> pairs the driver writes, by the selected page:
\* transmit page 0x20 or 0xFE, byte counts 64, 208, 1856 and 2000, ring end
\* 0x80, boundary 0x47 or 0x48, current page 0x47 or 0x7F
NicOuts ==
    {<<NE2000_REG_CR, c>> : c \in NicCommands}
    \cup {<<NE2000_ASIC_OFFSET_RESET, 0>>}
    \cup (IF pageSelect(ne) = 1
          THEN {<<NE2000_REG_CURR, 71>>, <<NE2000_REG_CURR, 127>>}
          ELSE {<<NE2000_REG_TPSR, 32>>, <<NE2000_REG_TPSR, 254>>,
                <<NE2000_REG_TBCR0, 64>>, <<NE2000_REG_TBCR0, 208>>,
                <<NE2000_REG_TBCR1, 0>>, <<NE2000_REG_TBCR1, 7>>,
                <<NE2000_REG_PSTOP, 128>>,
                <<NE2000_REG_BNRY, 71>>, <<NE2000_REG_BNRY, 72>>,
                <<NE2000_REG_IMR, ISR_OVW>>})

\* the packets the host interface delivers: a length and the first byte of
\* a payload whose bytes count up from it
Packets == {[len |-> 60, first |-> 1], [len |-> 300, first |-> 7]}

PacketByte(P, i) == (P.first + i) % 256

\* the host interface has a packet for the NIC
NicArrive(P) ==
    /\ ne' = receivePacket(ne, P)
    /\ neOp' = "arrive"
    /\ neRet' = NoRet
    /\ UNCHANGED <<neIrq, neTap, neTbcr, neReads, picVars, vmVars, pitVars, busVars, devVars>>

NicNext ==
    \/ \E p \in NicOuts : NeOut(p[1], p[2])
    \/ \E offset \in {NE2000_REG_CR, NE2000_REG_ISR} : NeIn(offset)
    \/ \E P \in Packets : NicArrive(P)

(***************************************************************************)
(* PITDevice (pit.go)                                                      *)
(***************************************************************************)
PIT_PORT_COUNTER0 == 64
PIT_PORT_COUNTER1 == 65
PIT_PORT_COUNTER2 == 66
PIT_PORT_COMMAND == 67
PIT_PORT_STATUS == 97
PIT_RW_LATCH == 0
PIT_RW_LSB == 1
PIT_RW_MSB == 2
PIT_RW_LOHI == 3

\* NewPITDevice: every counter in mode 3, LSB-then-MSB, binary, value 0
NewPITDevice ==
    [counters |-> [i \in 0..2 |->
                     [value |-> 0, latch |-> 0, reload |-> 0, mode |-> 3,
                      rwMode |-> PIT_RW_LOHI, bcdMode |-> FALSE, counting |-> FALSE]],
     controlWord |-> 0,
     readWriteLatch |-> [i \in 0..2 |-> 0]]

\* reload |= uint16(val) << 8
OrHigh(reload, val) == (reload % 256) + 256 * BitOr(reload \div 256, val)

writeCounterPort(p, index, val) ==
    LET c == p.counters[index]
    IN  IF c.rwMode = PIT_RW_LATCH THEN p
        ELSE IF c.rwMode = PIT_RW_LSB
        THEN [p EXCEPT !.counters[index].reload = val, !.counters[index].value = val]
        ELSE IF c.rwMode = PIT_RW_MSB
        THEN [p EXCEPT !.counters[index].reload = val * 256,
                       !.counters[index].value = val * 256]
        ELSE IF p.readWriteLatch[index] = 0
        THEN [p EXCEPT !.counters[index].reload = val, !.readWriteLatch[index] = 1]
        ELSE [p EXCEPT !.counters[index].reload = OrHigh(c.reload, val),
                       !.counters[index].value = OrHigh(c.reload, val),
                       !.readWriteLatch[index] = 0]

\* readCounterPort: the device after the read and the byte returned
readCounterPort(p, index) ==
    LET c == p.counters[index]
        first == p.readWriteLatch[index] = 0
    IN  IF c.rwMode = PIT_RW_LATCH
        THEN [pit |-> [p EXCEPT !.readWriteLatch[index] = IF first THEN 1 ELSE 0],
              ret |-> IF first THEN c.latch % 256 ELSE c.latch \div 256]
        ELSE IF c.rwMode = PIT_RW_LSB THEN [pit |-> p, ret |-> c.value % 256]
        ELSE IF c.rwMode = PIT_RW_MSB THEN [pit |-> p, ret |-> c.value \div 256]
        ELSE [pit |-> [p EXCEPT !.readWriteLatch[index] = IF first THEN 1 ELSE 0],
              ret |-> IF first THEN c.value % 256 ELSE c.value \div 256]

\* the fields of a control word: counter, read-write mode, operating mode, BCD
CmdCounter(val) == val \div 64
CmdRwMode(val) == (val \div 16) % 4
CmdOpMode(val) == (val \div 2) % 8
CmdBcd(val) == val % 2 = 1

\* a faulty variant of PITwriteCommandPort: the latch command leaves the
\* read sequence where it was
PITwriteCommandPort_KeepSequence(p, val) ==
    LET i == CmdCounter(val)
    IN  IF i = 3 THEN p
        ELSE IF CmdRwMode(val) = PIT_RW_LATCH
        THEN [p EXCEPT !.counters[i].latch = p.counters[i].value,
                       !.counters[i].rwMode = PIT_RW_LATCH]
        ELSE [p EXCEPT !.counters[i].rwMode = CmdRwMode(val),
                       !.counters[i].mode = CmdOpMode(val),
                       !.counters[i].bcdMode = CmdBcd(val),
                       !.readWriteLatch[i] = 0]

\* PITDevice.writeCommandPort
PITwriteCommandPort(p, val) ==
    LET i == CmdCounter(val)
    IN  IF i = 3 THEN p
        ELSE IF CmdRwMode(val) = PIT_RW_LATCH
        THEN [p EXCEPT !.counters[i].latch = p.counters[i].value,
                       !.counters[i].rwMode = PIT_RW_LATCH,
                       !.readWriteLatch[i] = 0]
        ELSE [p EXCEPT !.counters[i].rwMode = CmdRwMode(val),
                       !.counters[i].mode = CmdOpMode(val),
                       !.counters[i].bcdMode = CmdBcd(val),
                       !.readWriteLatch[i] = 0]

\* PITDevice.HandleIO: the device after the access, the byte left in data[0]
\* (NoRet when none was written) and whether an error was returned
PITResult(p, r, e) == [pit |-> p, ret |-> r, err |-> e]

PITHandleIO(p, port, direction, size, val) ==
    IF size # 1 THEN PITResult(p, NoRet, TRUE)
    ELSE IF port \in {PIT_PORT_COUNTER0, PIT_PORT_COUNTER1, PIT_PORT_COUNTER2}
    THEN (IF direction = IODirectionOut
          THEN PITResult(writeCounterPort(p, port - PIT_PORT_COUNTER0, val), NoRet, FALSE)
          ELSE LET r == readCounterPort(p, port - PIT_PORT_COUNTER0)
               IN  PITResult(r.pit, r.ret, FALSE))
    ELSE IF port = PIT_PORT_COMMAND
    THEN (IF direction = IODirectionOut
          THEN PITResult(PITwriteCommandPort(p, val), NoRet, FALSE)
          ELSE PITResult(p, NoRet, TRUE))
    ELSE IF port = PIT_PORT_STATUS
    THEN PITResult(p, IF direction = IODirectionOut THEN NoRet ELSE 32, FALSE)
    ELSE PITResult(p, NoRet, TRUE)

(***************************************************************************)
(* The inputs the PIT specification draws from, and its actions            *)
(***************************************************************************)
\* control words: latch counter 0, latch counter 1, counter 0 in LSB-then-MSB
\* and in LSB-only, read-back
PitCommands == {0, 64, 54, 22, 192}

\* the counter ports the guest uses
PitCounterPorts == {PIT_PORT_COUNTER0, PIT_PORT_COUNTER1}

\* bytes written to a counter port
PitWrites == {<<PIT_PORT_COUNTER0, 18>>, <<PIT_PORT_COUNTER0, 52>>}

\* pitMon follows the latest latch command: the counter, the value it held
\* at the command, the bytes the next two reads of its port returned, and
\* whether its port was written in between
NoLatch == [counter |-> NoRet, value |-> 0, reads |-> 0, lo |-> NoRet, hi |-> NoRet, wrote |-> FALSE]

MonAfterCommand(val) ==
    IF CmdCounter(val) = 3 THEN pitMon
    ELSE IF CmdRwMode(val) = PIT_RW_LATCH
    THEN [NoLatch EXCEPT !.counter = CmdCounter(val),
                         !.value = pit.counters[CmdCounter(val)].value]
    ELSE IF CmdCounter(val) = pitMon.counter THEN NoLatch
    ELSE pitMon

MonAfterWrite(index) ==
    IF index = pitMon.counter /\ pitMon.reads < 2 THEN [pitMon EXCEPT !.wrote = TRUE]
    ELSE pitMon

MonAfterRead(index, ret) ==
    IF index # pitMon.counter THEN pitMon
    ELSE IF pitMon.reads = 0 THEN [pitMon EXCEPT !.reads = 1, !.lo = ret]
    ELSE IF pitMon.reads = 1 THEN [pitMon EXCEPT !.reads = 2, !.hi = ret]
    ELSE NoLatch

\* OUT to the control port
PitOutCommand(val) ==
    /\ pit' = PITHandleIO(pit, PIT_PORT_COMMAND, IODirectionOut, 1, val).pit
    /\ pitRet' = NoRet
    /\ pitMon' = MonAfterCommand(val)
    /\ UNCHANGED <<picVars, vmVars, neVars, busVars, devVars>>

\* OUT to a counter port
PitOutCounter(port, val) ==
    /\ pit' = PITHandleIO(pit, port, IODirectionOut, 1, val).pit
    /\ pitRet' = NoRet
    /\ pitMon' = MonAfterWrite(port - PIT_PORT_COUNTER0)
    /\ UNCHANGED <<picVars, vmVars, neVars, busVars, devVars>>

\* IN from a counter port
PitInCounter(port) ==
    /\ LET r == PITHandleIO(pit, port, IODirectionIn, 1, 0)
       IN  /\ pit' = r.pit
           /\ pitRet' = r.ret
           /\ pitMon' = MonAfterRead(port - PIT_PORT_COUNTER0, r.ret)
    /\ UNCHANGED <<picVars, vmVars, neVars, busVars, devVars>>

\* IN from port 0x61
PitInStatus ==
    /\ LET r == PITHandleIO(pit, PIT_PORT_STATUS, IODirectionIn, 1, 0)
       IN  pit' = r.pit /\ pitRet' = r.ret
    /\ UNCHANGED <<pitMon, picVars, vmVars, neVars, busVars, devVars>>

PitNext ==
    \/ \E val \in PitCommands : PitOutCommand(val)
    \/ \E w \in PitWrites : PitOutCounter(w[1], w[2])
    \/ \E port \in PitCounterPorts : PitInCounter(port)
    \/ PitInStatus

(***************************************************************************)
(* IOBus (iobus.go) and the registrations of NewVirtualMachine             *)
(***************************************************************************)
RTC_PORT_INDEX == 112
RTC_PORT_DATA == 113
COM1_PORT_BASE == 1016
COM1_PORT_END == 1023
KEYBOARD_PORT_DATA == 96
KEYBOARD_PORT_STATUS == 100
NE2000_BASE_PORT == 768

\* NewIOBus: an empty map from port to device
NewIOBus == <<>>

\* RegisterDevice: every port of startPort..endPort is (re)assigned to the
\* device; a nil device is refused
RegisterDevice(b, startPort, endPort, device) ==
    IF device = "nil" THEN b
    ELSE [port \in (DOMAIN b) \cup (startPort..endPort) |->
            IF port \in startPort..endPort THEN device ELSE b[port]]

\* the RegisterDevice calls of NewVirtualMachine, in order
Registrations ==
    << <<PIC_MASTER_CMD_PORT, PIC_SLAVE_DATA_PORT, "pic">>,
       <<PIT_PORT_COUNTER0, PIT_PORT_COMMAND, "pit">>,
       <<PIT_PORT_STATUS, PIT_PORT_STATUS, "pit">>,
       <<COM1_PORT_BASE, COM1_PORT_END, "serial">>,
       <<RTC_PORT_INDEX, RTC_PORT_DATA, "rtc">>,
       <<KEYBOARD_PORT_DATA, KEYBOARD_PORT_DATA, "keyboard">>,
       <<KEYBOARD_PORT_STATUS, KEYBOARD_PORT_STATUS, "keyboard">>,
       <<NE2000_BASE_PORT, NE2000_BASE_PORT + 31, "ne2000">> >>

\* a faulty variant of BusHandleIO: the handler's result is dropped
BusHandleIO_NilResult(b, port, direction, size, val, result) ==
    IF port \notin DOMAIN b
    THEN [calls |-> <<>>, err |-> "unhandled port"]
    ELSE [calls |-> <<[device |-> b[port], port |-> port, direction |-> direction,
                       size |-> size, val |-> val]>>,
          err |-> "nil"]

\* IOBus.HandleIO. The bus sees a device through the PioDevice interface:
\* what the handler returns (result) is given by the device. The outcome is
\* the handler calls made and the value returned to the caller.
BusHandleIO(b, port, direction, size, val, result) ==
    IF port \notin DOMAIN b
    THEN [calls |-> <<>>, err |-> "unhandled port"]
    ELSE [calls |-> <<[device |-> b[port], port |-> port, direction |-> direction,
                       size |-> size, val |-> val]>>,
          err |-> result]

\* the ports the guest accesses: the ends of every registered range and
\* their neighbours
BusPorts == {32, 33, 34, 63, 64, 67, 68, 96, 97, 100, 112, 113, 128, 159, 160, 161, 162,
             767, 768, 775, 799, 800, 1015, 1016, 1023, 1024}

\* what a device handler returns
HandlerResults == {"nil", "device error"}

NoAccess == [port |-> NoRet, result |-> "none", calls |-> <<>>, err |-> "none"]

\* the next RegisterDevice call of NewVirtualMachine
BusRegister ==
    /\ busPc < Len(Registrations)
    /\ LET r == Registrations[busPc + 1]
       IN  bus' = RegisterDevice(bus, r[1], r[2], r[3])
    /\ busPc' = busPc + 1
    /\ UNCHANGED <<busLog, picVars, vmVars, neVars, pitVars, devVars>>

\* a port access arrives at the bus
BusAccess(port, direction, size, val, result) ==
    /\ LET r == BusHandleIO(bus, port, direction, size, val, result)
       IN  busLog' = [port |-> port, result |-> result, calls |-> r.calls, err |-> r.err]
    /\ UNCHANGED <<bus, busPc, picVars, vmVars, neVars, pitVars, devVars>>

BusNext ==
    \/ BusRegister
    \/ \E port \in BusPorts : \E direction \in {IODirectionIn, IODirectionOut} :
         \E size \in {1, 2} : \E val \in {0, 90} : \E result \in HandlerResults :
            BusAccess(port, direction, size, val, result)

(***************************************************************************)
(* SerialPortDevice (serial.go)                                            *)
(***************************************************************************)
RHR_THR_DLL == 0
IER_DLH == 1
IIR_FCR == 2
LCR == 3
MCR == 4
LSR == 5
MSR == 6
SCR == 7
LCR_DLAB == 128
LSR_DR == 1
LSR_THRE == 32
LSR_TEMT == 64
IIR_NO_INT_PENDING == 1

\* sink is what outputWriter has received
NewSerialPortDevice ==
    [thrDll |-> 0, ierDlh |-> 0, iirFcr |-> IIR_NO_INT_PENDING, lcr |-> 0, mcr |-> 0,
     lsr |-> LSR_THRE + LSR_TEMT, msr |-> 0, scr |-> 0, dlabActive |-> FALSE,
     sink |-> <<>>]

\* a faulty variant of SerialOut: the transmit register ignores DLAB
SerialOut_NoDlab(s, offset, val, werr) ==
    CASE offset = RHR_THR_DLL ->
           IF werr THEN IOResult(s, NoRet, TRUE)
           ELSE IOResult([s EXCEPT !.sink = Append(@, val),
                                   !.lsr = BitOr(@, LSR_THRE + LSR_TEMT)], NoRet, FALSE)
      [] offset = IER_DLH -> IOResult([s EXCEPT !.ierDlh = val], NoRet, FALSE)
      [] offset = IIR_FCR -> IOResult([s EXCEPT !.iirFcr = val], NoRet, FALSE)
      [] offset = LCR ->
           IOResult([s EXCEPT !.lcr = val, !.dlabActive = (BitAnd(val, LCR_DLAB) # 0)],
                    NoRet, FALSE)
      [] offset = MCR -> IOResult([s EXCEPT !.mcr = val], NoRet, FALSE)
      [] offset = SCR -> IOResult([s EXCEPT !.scr = val], NoRet, FALSE)
      [] OTHER -> IOResult(s, NoRet, TRUE)

\* SerialPortDevice.HandleIO, OUT of one byte; werr says that
\* outputWriter.Write fails
SerialOut(s, offset, val, werr) ==
    CASE offset = RHR_THR_DLL ->
           IF s.dlabActive THEN IOResult([s EXCEPT !.thrDll = val], NoRet, FALSE)
           ELSE IF werr THEN IOResult(s, NoRet, TRUE)
           ELSE IOResult([s EXCEPT !.sink = Append(@, val),
                                   !.lsr = BitOr(@, LSR_THRE + LSR_TEMT)], NoRet, FALSE)
      [] offset = IER_DLH -> IOResult([s EXCEPT !.ierDlh = val], NoRet, FALSE)
      [] offset = IIR_FCR -> IOResult([s EXCEPT !.iirFcr = val], NoRet, FALSE)
      [] offset = LCR ->
           IOResult([s EXCEPT !.lcr = val, !.dlabActive = (BitAnd(val, LCR_DLAB) # 0)],
                    NoRet, FALSE)
      [] offset = MCR -> IOResult([s EXCEPT !.mcr = val], NoRet, FALSE)
      [] offset = SCR -> IOResult([s EXCEPT !.scr = val], NoRet, FALSE)
      [] OTHER -> IOResult(s, NoRet, TRUE)

\* SerialPortDevice.HandleIO, IN of one byte
SerialIn(s, offset) ==
    CASE offset = RHR_THR_DLL ->
           IF s.dlabActive THEN IOResult(s, s.thrDll, FALSE)
           ELSE IOResult([s EXCEPT !.lsr = BitAndNot(@, LSR_DR)], 0, FALSE)
      [] offset = IER_DLH -> IOResult(s, s.ierDlh, FALSE)
      [] offset = IIR_FCR -> IOResult([s EXCEPT !.iirFcr = IIR_NO_INT_PENDING], s.iirFcr, FALSE)
      [] offset = LCR -> IOResult(s, s.lcr, FALSE)
      [] offset = MCR -> IOResult(s, s.mcr, FALSE)
      [] offset = LSR -> IOResult(s, s.lsr, FALSE)
      [] offset = MSR -> IOResult(s, 0, FALSE)
      [] offset = SCR -> IOResult(s, s.scr, FALSE)
      [] OTHER -> IOResult(s, NoRet, TRUE)

\* SerialPortDevice.HandleIO; offset is uint16(port - COM1_PORT_BASE)
SerialHandleIO(s, port, direction, size, val, werr) ==
    LET offset == (port - COM1_PORT_BASE + 65536) % 65536
    IN  IF size # 1 THEN IOResult(s, NoRet, TRUE)
        ELSE IF direction = IODirectionOut THEN SerialOut(s, offset, val, werr)
        ELSE IF direction = IODirectionIn THEN SerialIn(s, offset)
        ELSE IOResult(s, NoRet, TRUE)

\* the guest writes at most this many bytes to COM1
MaxUartWrites == 4

\* the <<offset, value>> pairs the guest writes: two characters, an
\* interrupt-enable byte, LCR with DLAB and 8N1 without
UartOuts == {<<RHR_THR_DLL, 65>>, <<RHR_THR_DLL, 66>>, <<IER_DLH, 5>>,
             <<LCR, LCR_DLAB + 3>>, <<LCR, 3>>}

\* OUT to a COM1 port; uartLog keeps the offset, the value and whether the
\* writer behind the device took the byte offered to it
UartOut(offset, val, werr) ==
    /\ Len(uartLog) < MaxUartWrites
    /\ werr => (offset = RHR_THR_DLL /\ ~uart.dlabActive)
    /\ LET r == SerialHandleIO(uart, COM1_PORT_BASE + offset, IODirectionOut, 1, val, werr)
       IN  uart' = r.dev /\ uartRet' = r.ret
    /\ uartLog' = Append(uartLog, <<offset, val, ~werr>>)
    /\ UNCHANGED <<rtcVars, run, picVars, vmVars, neVars, pitVars, busVars, kbdVars>>

\* IN from a COM1 port
UartIn(offset) ==
    /\ LET r == SerialHandleIO(uart, COM1_PORT_BASE + offset, IODirectionIn, 1, 0, FALSE)
       IN  uart' = r.dev /\ uartRet' = r.ret
    /\ UNCHANGED <<uartLog, rtcVars, run, picVars, vmVars, neVars, pitVars, busVars, kbdVars>>

UartNext ==
    \/ \E w \in UartOuts : \E werr \in BOOLEAN : UartOut(w[1], w[2], werr)
    \/ \E offset \in {RHR_THR_DLL, IER_DLH, LSR} : UartIn(offset)

(***************************************************************************)
(* RTCDevice (rtc.go)                                                      *)
(***************************************************************************)
RTC_IRQ == 8
RTC_REG_SECONDS == 0
RTC_REG_MINUTES == 2
RTC_REG_HOURS == 4
RTC_REG_DAY_OF_WEEK == 6
RTC_REG_DAY_OF_MONTH == 7
RTC_REG_MONTH == 8
RTC_REG_YEAR == 9
RTC_REG_A == 10
RTC_REG_B == 11
RTC_REG_C == 12
RTC_REG_D == 13
RTC_A_UIP == 128
RTC_B_PIE == 64
RTC_B_DM == 4
RTC_B_2412 == 2
RTC_C_IRQF == 128
RTC_C_PF == 64
RTC_D_VRT == 128

updateConfigFlags(r) ==
    [r EXCEPT !.bcdMode = (BitAnd(r.registers[RTC_REG_B], RTC_B_DM) = 0),
              !.hour24Mode = (BitAnd(r.registers[RTC_REG_B], RTC_B_2412) # 0)]

NewRTCDevice ==
    updateConfigFlags(
        [registers |-> [i \in 0..127 |-> CASE i = RTC_REG_A -> 38
                                            [] i = RTC_REG_B -> 2
                                            [] i = RTC_REG_D -> 128
                                            [] OTHER -> 0],
         currentRegisterIndex |-> 0, bcdMode |-> FALSE, hour24Mode |-> FALSE])

convertTimeValue(r, val) ==
    IF r.bcdMode THEN (BitOr((val \div 10) * 16, val % 10)) % 256 ELSE val % 256

\* a faulty variant of writeDataRegister: register C is stored like the others
writeDataRegister_StoreC(r, val) ==
    LET i == r.currentRegisterIndex
    IN  CASE i = RTC_REG_A -> [r EXCEPT !.registers[i] = BitAndNot(val, RTC_A_UIP)]
          [] i = RTC_REG_B -> updateConfigFlags([r EXCEPT !.registers[i] = val])
          [] i = RTC_REG_D -> r
          [] OTHER -> [r EXCEPT !.registers[i] = val]

writeDataRegister(r, val) ==
    LET i == r.currentRegisterIndex
    IN  CASE i \in {RTC_REG_SECONDS, RTC_REG_MINUTES, RTC_REG_HOURS, RTC_REG_DAY_OF_WEEK,
                    RTC_REG_DAY_OF_MONTH, RTC_REG_MONTH, RTC_REG_YEAR} ->
               [r EXCEPT !.registers[i] = val]
          [] i = RTC_REG_A -> [r EXCEPT !.registers[i] = BitAndNot(val, RTC_A_UIP)]
          [] i = RTC_REG_B -> updateConfigFlags([r EXCEPT !.registers[i] = val])
          [] i = RTC_REG_C -> r
          [] i = RTC_REG_D -> r
          [] OTHER -> [r EXCEPT !.registers[i] = val]

\* readDataRegister at host time now; the result is [dev, ret]. In 12-hour
\* mode bit 7 of the hours is PM.
readDataRegister(r, now) ==
    LET i == r.currentRegisterIndex
        h == IF now.hour >= 12 THEN now.hour - 12 ELSE now.hour
        v == convertTimeValue(r, IF h = 0 THEN 12 ELSE h)
    IN  CASE i = RTC_REG_SECONDS -> [dev |-> r, ret |-> convertTimeValue(r, now.second)]
          [] i = RTC_REG_MINUTES -> [dev |-> r, ret |-> convertTimeValue(r, now.minute)]
          [] i = RTC_REG_HOURS ->
               [dev |-> r, ret |-> IF r.hour24Mode THEN convertTimeValue(r, now.hour)
                                   ELSE IF now.hour >= 12 THEN BitOr(v, 128) ELSE v]
          [] i = RTC_REG_DAY_OF_WEEK -> [dev |-> r, ret |-> convertTimeValue(r, now.weekday + 1)]
          [] i = RTC_REG_DAY_OF_MONTH -> [dev |-> r, ret |-> convertTimeValue(r, now.day)]
          [] i = RTC_REG_MONTH -> [dev |-> r, ret |-> convertTimeValue(r, now.month)]
          [] i = RTC_REG_YEAR -> [dev |-> r, ret |-> convertTimeValue(r, now.year % 100)]
          [] i = RTC_REG_A -> [dev |-> r, ret |-> BitAndNot(r.registers[RTC_REG_A], RTC_A_UIP)]
          [] i = RTC_REG_B -> [dev |-> r, ret |-> r.registers[RTC_REG_B]]
          [] i = RTC_REG_C -> [dev |-> [r EXCEPT !.registers[RTC_REG_C] = 0],
                               ret |-> r.registers[RTC_REG_C]]
          [] i = RTC_REG_D -> [dev |-> r, ret |-> BitOr(r.registers[RTC_REG_D], RTC_D_VRT)]
          [] OTHER -> [dev |-> r, ret |-> r.registers[i]]

\* RTCDevice.HandleIO
RTCHandleIO(r, port, direction, size, val, now) ==
    IF size # 1 THEN IOResult(r, NoRet, TRUE)
    ELSE IF port = RTC_PORT_INDEX
    THEN IF direction = IODirectionOut
         THEN IOResult([r EXCEPT !.currentRegisterIndex = BitAnd(val, 127)], NoRet, FALSE)
         ELSE IOResult(r, r.currentRegisterIndex, FALSE)
    ELSE IF port = RTC_PORT_DATA
    THEN IF r.currentRegisterIndex >= 128
         THEN IOResult(r, IF direction = IODirectionIn THEN 255 ELSE NoRet, TRUE)
         ELSE IF direction = IODirectionOut
         THEN IOResult(writeDataRegister(r, val), NoRet, FALSE)
         ELSE LET rd == readDataRegister(r, now)
              IN  IOResult(rd.dev, rd.ret, FALSE)
    ELSE IOResult(r, NoRet, TRUE)

\* RTCDevice.Tick: the device and the PIC its irqRaiser is
RTCTick(r, p, irqLine) ==
    IF BitAnd(r.registers[RTC_REG_B], RTC_B_PIE) # 0
    THEN [dev |-> [r EXCEPT !.registers[RTC_REG_C] = BitOr(@, RTC_C_PF + RTC_C_IRQF)],
          pic |-> RaiseIRQ(p, irqLine)]
    ELSE [dev |-> r, pic |-> p]

\* host times at which the guest reads: a Sunday just after midnight and a
\* Saturday just before it
RtcTimes ==
    {[second |-> 9, minute |-> 5, hour |-> 0, weekday |-> 0, day |-> 17, month |-> 3,
      year |-> 2024],
     [second |-> 58, minute |-> 59, hour |-> 23, weekday |-> 6, day |-> 27, month |-> 12,
      year |-> 2025]}

\* the time of day at which the guest of the other specifications reads
\* the clock
AccessTime == CHOOSE t \in RtcTimes : t.hour = 23

\* index bytes the guest selects: C, B, A, hours, a CMOS RAM byte, and C
\* with the NMI bit
RtcIndexOuts == {RTC_REG_C, RTC_REG_B, RTC_REG_A, RTC_REG_HOURS, 14, 128 + RTC_REG_C}

\* data bytes the guest writes: PIE with 24-hour mode, binary 24-hour
\* mode, all ones
RtcDataOuts == {RTC_B_PIE + RTC_B_2412, RTC_B_DM + RTC_B_2412, 255}

RtcOut(port, val) ==
    /\ LET r == RTCHandleIO(rtc, port, IODirectionOut, 1, val, CHOOSE t \in RtcTimes : TRUE)
       IN  rtc' = r.dev /\ rtcRet' = r.ret
    /\ UNCHANGED <<uartVars, run, picVars, vmVars, neVars, pitVars, busVars, kbdVars>>

RtcIn(port, now) ==
    /\ LET r == RTCHandleIO(rtc, port, IODirectionIn, 1, 0, now)
       IN  rtc' = r.dev /\ rtcRet' = r.ret
    /\ UNCHANGED <<uartVars, run, picVars, vmVars, neVars, pitVars, busVars, kbdVars>>

RtcTick ==
    /\ LET t == RTCTick(rtc, pic, RTC_IRQ)
       IN  rtc' = t.dev /\ pic' = t.pic
    /\ rtcRet' = NoRet
    /\ UNCHANGED <<picRet, scen, uartVars, run, vmVars, neVars, pitVars, busVars, kbdVars>>

RtcNext ==
    \/ \E val \in RtcIndexOuts : RtcOut(RTC_PORT_INDEX, val)
    \/ \E val \in RtcDataOuts : RtcOut(RTC_PORT_DATA, val)
    \/ \E port \in {RTC_PORT_INDEX, RTC_PORT_DATA} : \E now \in RtcTimes : RtcIn(port, now)
    \/ RtcTick

(***************************************************************************)
(* KeyboardDevice (devices/keyboard.go)                                    *)
(***************************************************************************)
\* NewKeyboardDevice: the buffer holds the character 'V'
NewKeyboardDevice == [buffer |-> <<86>>]

\* a faulty variant of KeyboardHandleIO: accesses of any width are served
KeyboardHandleIO_AnyWidth(k, port, direction, size, val) ==
    IF direction = IODirectionOut THEN IOResult(k, NoRet, TRUE)
    ELSE IF port = KEYBOARD_PORT_STATUS
    THEN IOResult(k, IF Len(k.buffer) > 0 THEN 1 ELSE 0, FALSE)
    ELSE IF port = KEYBOARD_PORT_DATA
    THEN (IF Len(k.buffer) > 0
          THEN IOResult([k EXCEPT !.buffer = Tail(@)], Head(k.buffer), FALSE)
          ELSE IOResult(k, 0, FALSE))
    ELSE IOResult(k, NoRet, TRUE)

\* KeyboardDevice.HandleIO
KeyboardHandleIO(k, port, direction, size, val) ==
    IF size # 1 THEN IOResult(k, NoRet, TRUE)
    ELSE IF direction = IODirectionOut THEN IOResult(k, NoRet, TRUE)
    ELSE IF port = KEYBOARD_PORT_STATUS
    THEN IOResult(k, IF Len(k.buffer) > 0 THEN 1 ELSE 0, FALSE)
    ELSE IF port = KEYBOARD_PORT_DATA
    THEN (IF Len(k.buffer) > 0
          THEN IOResult([k EXCEPT !.buffer = Tail(@)], Head(k.buffer), FALSE)
          ELSE IOResult(k, 0, FALSE))
    ELSE IOResult(k, NoRet, TRUE)

(***************************************************************************)
(* VCPU.Run: the exit switch with the devices behind the I/O bus           *)
(***************************************************************************)
\* PICDevice.HandleIO
PICHandleIO(p, port, direction, size, val) ==
    IF size # 1 THEN IOResult(p, NoRet, TRUE)
    ELSE IF port \in {PIC_MASTER_CMD_PORT, PIC_MASTER_DATA_PORT,
                      PIC_SLAVE_CMD_PORT, PIC_SLAVE_DATA_PORT}
    THEN IF direction = IODirectionOut
         THEN IOResult(PICWrite(p, port, val), NoRet, FALSE)
         ELSE IOResult(p, PICRead(p, port), FALSE)
    ELSE IOResult(p, NoRet, TRUE)

\* the port map NewVirtualMachine leaves in vm.ioBus: a port belongs to the
\* device of the last RegisterDevice call whose range holds it
VmIOBus ==
    LET Range(i) == Registrations[i][1]..Registrations[i][2]
        Last(port) == CHOOSE i \in DOMAIN Registrations :
                          /\ port \in Range(i)
                          /\ \A j \in DOMAIN Registrations : j > i => port \notin Range(j)
    IN  [port \in UNION {Range(i) : i \in DOMAIN Registrations} |-> Registrations[Last(port)][3]]

\* what the handler of the device at a port leaves: d with the device's new
\* state, the byte read and the handler's error
HandlerResult(d, field, h) == IOResult([d EXCEPT ![field] = h.dev], h.ret, h.err)

\* the result of PITDevice.HandleIO in the form of the other handlers'
PitIOResult(h) == IOResult(h.pit, h.ret, h.err)

\* the handler call IOBus.HandleIO makes for a mapped port; d holds the
\* devices of the VM. env is what the handlers find outside the VM: whether
\* the serial writer fails (werr) and the time of day (now).
VmDeviceHandleIO(d, device, port, direction, size, val, env) ==
    CASE device = "serial" ->
           HandlerResult(d, "uart", SerialHandleIO(d.uart, port, direction, size, val, env.werr))
      [] device = "pic" ->
           HandlerResult(d, "pic", PICHandleIO(d.pic, port, direction, size, val))
      [] device = "pit" ->
           HandlerResult(d, "pit", PitIOResult(PITHandleIO(d.pit, port, direction, size, val)))
      [] device = "rtc" ->
           HandlerResult(d, "rtc", RTCHandleIO(d.rtc, port, direction, size, val, env.now))
      [] device = "keyboard" ->
           HandlerResult(d, "keyboard", KeyboardHandleIO(d.keyboard, port, direction, size, val))
      [] device = "ne2000" ->
           HandlerResult(d, "ne2000",
                         NE2000HandleIO(d.ne2000, (port - NE2000_BASE_PORT + 65536) % 65536,
                                        direction, size, val))

\* IOBus.HandleIO returns the bus's error or the handler's
VmBusResult(b, port, direction, size, val, h) ==
    IOResult(h.dev, h.ret,
             BusHandleIO(b, port, direction, size, val,
                         IF h.err THEN "device error" ELSE "nil").err # "nil")

\* vm.ioBus.HandleIO on the bus NewVirtualMachine built
VmBusHandleIO(d, port, direction, size, val, env) ==
    IF port \in DOMAIN VmIOBus
    THEN VmBusResult(VmIOBus, port, direction, size, val,
                     VmDeviceHandleIO(d, VmIOBus[port], port, direction, size, val, env))
    ELSE VmBusResult(VmIOBus, port, direction, size, val, IOResult(d, NoRet, FALSE))

\* VirtualMachine.HandleIO: count transfers of size bytes through a buffer
\* of dataLen bytes, stopping at the first error
RECURSIVE VMHandleIO(_, _, _, _, _, _, _, _)
VMHandleIOLoop(r, port, direction, size, count, dataLen, val, env) ==
    IF r.err \/ count = 1 THEN r
    ELSE VMHandleIO(r.dev, port, direction, size, count - 1, dataLen, val, env)

VMHandleIO(d, port, direction, size, count, dataLen, val, env) ==
    IF count = 0 THEN IOResult(d, NoRet, FALSE)
    ELSE IF dataLen < size THEN IOResult(d, NoRet, TRUE)
    ELSE VMHandleIOLoop(VmBusHandleIO(d, port, direction, size, val, env),
                        port, direction, size, count, dataLen, val, env)

\* VirtualMachine.HandleMMIO: the buffer afterwards and the error
HandleMMIO(data, isWrite) ==
    [data |-> IF ~isWrite /\ Len(data) > 0 THEN [i \in 1..Len(data) |-> 255] ELSE data,
     err |-> TRUE]

\* the vector CheckForPendingInterrupts hands to InjectInterrupt, or NoRet
InjectedVector(p, id) ==
    IF id = 0 /\ HasPendingInterrupts(p) /\ GetInterruptVector(p).vector # 0
    THEN GetInterruptVector(p).vector
    ELSE NoRet

\* the devices NewVirtualMachine registers on the bus, as VCPU.Run finds them
VmDevices ==
    [uart |-> uart, pic |-> pic, pit |-> pit, rtc |-> rtc, keyboard |-> kbd, ne2000 |-> ne]

\* VCPU 0 before Run
NewRun ==
    [pc |-> "head",             \* head, has, get, inject, kvm, returned
     chk |-> "none",            \* the call of CheckForPendingInterrupts that is
                                \* running: tick (in the ticker case of the
                                \* select), pre (before KVM_RUN), hlt
     tick |-> FALSE,            \* a tick is buffered in vcpu.ticker.C
     stopClosed |-> FALSE,      \* vm.stopChan is closed
     panicked |-> FALSE,        \* a second Stop closed the closed channel
     vector |-> 0,              \* the vector GetInterruptVector returned
     copy |-> "kvm.go",         \* the copy of VCPU.Run that took the halt exit
     ret |-> "none", errHw |-> NoRet, exit |-> "none", hw |-> 0,
     data |-> <<>>, logged |-> "none", injected |-> <<>>, runs |-> 0]

\* the slice VCPU.Run builds over the I/O data area
IoDataLen(size) == IF size > 8 THEN 8 ELSE size

CheckAndInject(r, p) ==
    [r EXCEPT !.injected = IF InjectedVector(p, 0) = NoRet THEN @
                           ELSE Append(@, InjectedVector(p, 0))]

\* a faulty variant of AfterIO: a failed port access ends Run
AfterIO_ErrorReturns(x, h) ==
    [run |-> IF h.err
             THEN [x EXCEPT !.pc = "returned", !.ret = "err", !.logged = "io error"]
             ELSE [x EXCEPT !.pc = "head", !.logged = "none",
                            !.data = IF h.ret = NoRet THEN <<>> ELSE <<h.ret>>],
     dev |-> h.dev]

\* the I/O case after vm.HandleIO returned h: an error is logged and the
\* loop goes on
AfterIO(x, h) ==
    [run |-> [x EXCEPT !.pc = "head",
                       !.logged = IF h.err THEN "io error" ELSE "none",
                       !.data = IF h.ret = NoRet THEN <<>> ELSE <<h.ret>>],
     dev |-> h.dev]

\* the shutdown, fail-entry and unknown cases: Run returns an error; the
\* error text of fail-entry and unknown holds kvmRun.HwReason, that of
\* shutdown only the VCPU id
FatalExit(x, e) ==
    [x EXCEPT !.pc = "returned", !.ret = "err", !.logged = e.reason,
              !.errHw = IF e.reason = "shutdown" THEN NoRet ELSE e.hwReason]

\* VCPU.Run of VCPU 0 from the return of KVM_RUN to the end of the exit
\* switch. e is what the run call left: the errno case, or the exit reason
\* with the fields of the control block the switch reads. d holds the
\* devices behind the I/O bus. On a halt exit kvm.go returns nil and vcpu.go
\* goes round the loop (e.copy says which copy is built).
VcpuExit(r, d, e) ==
    LET x == [r EXCEPT !.exit = e.reason, !.hw = e.hwReason, !.data = <<>>]
    IN  CASE e.reason = "errno" ->
               [run |-> [x EXCEPT !.pc = "returned", !.ret = "err", !.logged = "none"],
                dev |-> d]
          [] e.reason = "io" ->
               AfterIO(x, VMHandleIO(d, e.port, e.direction, e.size, e.count,
                                     IoDataLen(e.size), e.val, e.env))
          [] e.reason = "mmio" ->
               LET m == HandleMMIO(e.data, e.isWrite)
               IN  [run |-> [x EXCEPT !.pc = "head", !.data = m.data,
                                      !.logged = IF m.err THEN "mmio error" ELSE "none"],
                    dev |-> d]
          [] e.reason = "hlt" ->
               [run |-> IF e.copy = "kvm.go"
                        THEN [CheckAndInject(x, d.pic) EXCEPT
                                 !.pc = "returned", !.ret = "nil", !.logged = "halted"]
                        ELSE [CheckAndInject(x, d.pic) EXCEPT
                                 !.pc = "head", !.logged = "none"],
                dev |-> [d EXCEPT !.pic = CheckForPendingInterrupts(d.pic, 0)]]
          [] e.reason \in {"shutdown", "fail_entry", "unknown"} ->
               [run |-> FatalExit(x, e), dev |-> d]
          [] OTHER ->
               [run |-> [x EXCEPT !.pc = "head", !.logged = "unhandled exit"], dev |-> d]

\* VCPU 0 makes at most this many KVM_RUN calls
MaxRuns == 4

\* values of kvmRun.HwReason
HwReasons == {0, 33}

NoExit ==
    [reason |-> "none", port |-> 0, direction |-> IODirectionOut, size |-> 1, count |-> 1,
     val |-> 0, env |-> [werr |-> FALSE, now |-> AccessTime], data |-> <<>>,
     isWrite |-> FALSE, hwReason |-> 0,
     copy |-> "kvm.go"]

\* port accesses of the guest: 'P' to COM1 (taken or refused by the
\* writer), a word to COM1, LSR read, unmasking IR0 and IR1 at the master
\* PIC, a byte to 0x22, a keyboard read, a byte to PIT counter 0 and a byte
\* to the unmapped port 0x400
RunIoExits ==
    {[NoExit EXCEPT !.reason = "io", !.port = COM1_PORT_BASE, !.val = 80, !.env.werr = w] :
        w \in BOOLEAN}
    \cup {[NoExit EXCEPT !.reason = "io", !.port = COM1_PORT_BASE, !.val = 80, !.size = 2],
          [NoExit EXCEPT !.reason = "io", !.port = COM1_PORT_BASE + LSR,
                         !.direction = IODirectionIn],
          [NoExit EXCEPT !.reason = "io", !.port = PIC_MASTER_DATA_PORT, !.val = 252],
          [NoExit EXCEPT !.reason = "io", !.port = 34, !.val = 1],
          [NoExit EXCEPT !.reason = "io", !.port = KEYBOARD_PORT_DATA,
                         !.direction = IODirectionIn],
          [NoExit EXCEPT !.reason = "io", !.port = PIT_PORT_COUNTER0, !.val = 18],
          [NoExit EXCEPT !.reason = "io", !.port = 1024, !.val = 1]}

\* what a KVM_RUN call of VCPU 0 can leave behind
RunExits ==
    RunIoExits
    \cup {[NoExit EXCEPT !.reason = "mmio", !.data = [i \in 1..n |-> 0], !.isWrite = FALSE] :
            n \in {1, 4, 8}}
    \cup {[NoExit EXCEPT !.reason = "mmio", !.data = <<18, 52>>, !.isWrite = TRUE]}
    \cup {[NoExit EXCEPT !.reason = "hlt", !.copy = c] : c \in VcpuCopies}
    \cup {[NoExit EXCEPT !.reason = k, !.hwReason = h] :
            k \in {"shutdown", "fail_entry", "unknown"}, h \in HwReasons}
    \cup {[NoExit EXCEPT !.reason = k] : k \in {"intr", "errno"}}

\* the ticker NewVCPU started delivers a tick into its one-element channel
\* (a tick that finds the channel full is dropped); Run's deferred
\* ticker.Stop() ends the ticks
RunTick ==
    /\ ~run.panicked
    /\ run.pc # "returned" /\ ~run.tick
    /\ run' = [run EXCEPT !.tick = TRUE]
    /\ UNCHANGED <<picVars, uart, uartRet, uartLog, rtcVars, vmVars, neVars, pitVars,
                   busVars, kbdVars>>

\* the caller calls VirtualMachine.Stop: close(vm.stopChan), which panics on
\* a channel that is closed already
RunStop ==
    /\ ~run.panicked
    /\ run' = IF run.stopClosed THEN [run EXCEPT !.panicked = TRUE]
              ELSE [run EXCEPT !.stopClosed = TRUE]
    /\ UNCHANGED <<picVars, uart, uartRet, uartLog, rtcVars, vmVars, neVars, pitVars,
                   busVars, kbdVars>>

\* the select at the head of the loop takes "case <-vcpu.vm.stopChan": Run
\* returns nil
RunStopCase ==
    /\ ~run.panicked
    /\ run.pc = "head" /\ run.stopClosed
    /\ run' = [run EXCEPT !.pc = "returned", !.ret = "nil"]
    /\ UNCHANGED <<picVars, uart, uartRet, uartLog, rtcVars, vmVars, neVars, pitVars,
                   busVars, kbdVars>>

\* the select takes "case <-vcpu.ticker.C" (Go chooses among the ready
\* cases at random): VCPU 0 calls CheckForPendingInterrupts inside the case
\* and again before KVM_RUN
RunTickCase ==
    /\ ~run.panicked
    /\ run.pc = "head" /\ run.tick
    /\ run.runs < MaxRuns
    /\ run' = [run EXCEPT !.pc = "has", !.chk = "tick", !.tick = FALSE]
    /\ UNCHANGED <<picVars, uart, uartRet, uartLog, rtcVars, vmVars, neVars, pitVars,
                   busVars, kbdVars>>

\* the select takes "default" (no stop is requested, no tick is buffered):
\* the loop goes on to the interrupt check before KVM_RUN
RunSelect ==
    /\ ~run.panicked
    /\ run.pc = "head" /\ ~run.stopClosed /\ ~run.tick
    /\ run.runs < MaxRuns
    /\ run' = [run EXCEPT !.pc = "has", !.chk = "pre"]
    /\ UNCHANGED <<picVars, uart, uartRet, uartLog, rtcVars, vmVars, neVars, pitVars,
                   busVars, kbdVars>>

\* VCPU.Run after the call of CheckForPendingInterrupts named r.chk has
\* returned: the call of the ticker case is followed by the call before
\* KVM_RUN, that one by the ioctl, the call of the halt case by "return nil"
\* in kvm.go and by the next iteration in vcpu.go
RunAfterCheck(r) ==
    IF r.chk = "tick" THEN [r EXCEPT !.pc = "has", !.chk = "pre"]
    ELSE IF r.chk = "pre" THEN [r EXCEPT !.pc = "kvm", !.chk = "none", !.runs = @ + 1]
    ELSE IF r.copy = "kvm.go"
    THEN [r EXCEPT !.pc = "returned", !.chk = "none", !.ret = "nil", !.logged = "halted"]
    ELSE [r EXCEPT !.pc = "head", !.chk = "none", !.logged = "none"]

\* CheckForPendingInterrupts calls picDevice.HasPendingInterrupts()
RunHasPending ==
    /\ ~run.panicked
    /\ run.pc = "has"
    /\ run' = IF HasPendingInterrupts(pic) THEN [run EXCEPT !.pc = "get"]
              ELSE RunAfterCheck(run)
    /\ UNCHANGED <<picVars, uart, uartRet, uartLog, rtcVars, vmVars, neVars, pitVars,
                   busVars, kbdVars>>

\* CheckForPendingInterrupts calls picDevice.GetInterruptVector(); a vector
\* other than 0 is handed to InjectInterrupt
RunGetVector ==
    /\ ~run.panicked
    /\ run.pc = "get"
    /\ pic' = GetInterruptVector(pic).pic
    /\ run' = IF GetInterruptVector(pic).vector # 0
              THEN [run EXCEPT !.pc = "inject", !.vector = GetInterruptVector(pic).vector]
              ELSE RunAfterCheck(run)
    /\ UNCHANGED <<picRet, scen, uart, uartRet, uartLog, rtcVars, vmVars, neVars, pitVars,
                   busVars, kbdVars>>

\* InjectInterrupt: the KVM_INTERRUPT ioctl of the vector
RunInject ==
    /\ ~run.panicked
    /\ run.pc = "inject"
    /\ run' = RunAfterCheck([run EXCEPT !.injected = Append(@, run.vector), !.vector = 0])
    /\ UNCHANGED <<picVars, uart, uartRet, uartLog, rtcVars, vmVars, neVars, pitVars,
                   busVars, kbdVars>>

\* VCPU.Run and the devices after the exit switch left x
RunDevices(x) ==
    /\ run' = x.run
    /\ uart' = x.dev.uart /\ pic' = x.dev.pic /\ pit' = x.dev.pit
    /\ rtc' = x.dev.rtc /\ kbd' = x.dev.keyboard /\ ne' = x.dev.ne2000

\* the halt case up to its call of CheckForPendingInterrupts
RunHalt(r, d, e) ==
    [run |-> [r EXCEPT !.exit = e.reason, !.hw = e.hwReason, !.data = <<>>,
                       !.pc = "has", !.chk = "hlt", !.copy = e.copy],
     dev |-> d]

\* KVM_RUN returns and the exit switch runs; in the halt case the calls to
\* the PIC follow as steps of their own
RunExit(e) ==
    /\ ~run.panicked
    /\ run.pc = "kvm"
    /\ RunDevices(IF e.reason = "hlt" THEN RunHalt(run, VmDevices, e)
                  ELSE VcpuExit(run, VmDevices, e))
    /\ UNCHANGED <<picRet, scen, uartRet, uartLog, rtcRet, vmVars, neOp, neRet, neIrq, neTbcr,
                   neTap, neReads, pitRet, pitMon, busVars, acc>>

\* the lines devices raise while VCPU.Run runs
RunIrqLines == {0, 1}

\* a device goroutine calls RaiseIRQ
RunRaise(line) ==
    /\ ~run.panicked
    /\ pic' = RaiseIRQ(pic, line)
    /\ UNCHANGED <<run, picRet, scen, uartVars, rtcVars, vmVars, neVars, pitVars, busVars, kbdVars>>

\* the steps of VCPU.Run
RunLoop ==
    \/ RunStopCase
    \/ RunTickCase
    \/ RunSelect
    \/ RunHasPending
    \/ RunGetVector
    \/ RunInject
    \/ \E e \in RunExits : RunExit(e)

RunNext ==
    \/ RunLoop
    \/ RunTick
    \/ RunStop
    \/ \E line \in RunIrqLines : RunRaise(line)

(***************************************************************************)
(* The lifecycle of the VM and the goroutines of its VCPUs                  *)
(***************************************************************************)
\* NewVirtualMachine's loop creates the next VCPU
VmNewVCPU ==
    /\ Alive /\ vm.phase = "constructing"
    /\ \E v \in VCPUIds :
         /\ vcpu[v].pc = "absent"
         /\ \A w \in VCPUIds : w < v => vcpu[w].pc # "absent"
         /\ vcpu' = [vcpu EXCEPT ![v] = NewVCPU]
    /\ UNCHANGED <<vm, picVars, neVars, pitVars, busVars, devVars>>

\* NewVirtualMachine fails (NewVCPU, the boot image, the memory checks):
\* it calls vm.Close() and returns nil, so no caller ever holds this VM and
\* no goroutine of it runs beside the call
VmNewFail ==
    /\ Alive /\ vm.phase = "constructing"
    /\ vm' = [Close(vm) EXCEPT !.phase = "failed"]
    /\ vcpu' = CloseVCPUs(vm, vcpu)
    /\ UNCHANGED <<picVars, neVars, pitVars, busVars, devVars>>

\* NewVirtualMachine returns the VM; copy is the VCPU.Run the build holds
VmNewDone(copy) ==
    /\ Alive /\ vm.phase = "constructing"
    /\ \A v \in VCPUIds : vcpu[v].pc = "created"
    /\ vm' = [vm EXCEPT !.phase = "ready", !.copy = copy]
    /\ UNCHANGED <<vcpu, picVars, neVars, pitVars, busVars, devVars>>

\* the caller calls Stop
VmStop ==
    /\ Alive /\ vm.phase = "ready"
    /\ vm' = Stop(vm)
    /\ UNCHANGED <<vcpu, picVars, neVars, pitVars, busVars, devVars>>

\* the caller calls Close: Close calls Stop and, when that returns, starts
\* its loop over the VCPUs
VmCloseStop ==
    /\ Alive /\ vm.phase = "ready" /\ vm.closePc = "idle"
    /\ vm' = IF Stop(vm).panicked THEN Stop(vm)
             ELSE [Stop(vm) EXCEPT !.closePc = "unmap", !.closeI = 0]
    /\ UNCHANGED <<vcpu, picVars, neVars, pitVars, busVars, devVars>>

\* Close's loop calls vcpu.Close() for the next VCPU: first part
VmCloseUnmap ==
    /\ Alive /\ vm.closePc = "unmap"
    /\ vcpu' = [vcpu EXCEPT ![vm.closeI] = VCPUCloseUnmap(@)]
    /\ vm' = [vm EXCEPT !.closePc = "fd"]
    /\ UNCHANGED <<picVars, neVars, pitVars, busVars, devVars>>

\* vcpu.Close() closes the descriptor and returns; the loop goes on
VmCloseFd ==
    /\ Alive /\ vm.closePc = "fd"
    /\ vcpu' = [vcpu EXCEPT ![vm.closeI] = VCPUCloseFd(@)]
    /\ vm' = [vm EXCEPT !.closeI = @ + 1,
                        !.closePc = IF vm.closeI + 1 < NumVCPUs THEN "unmap" ELSE "release"]
    /\ UNCHANGED <<picVars, neVars, pitVars, busVars, devVars>>

\* Close releases what the VM itself holds and returns; no VCPU goroutine
\* reads these four fields
VmCloseRelease ==
    /\ Alive /\ vm.closePc = "release"
    /\ vm' = [ReleaseVM(vm) EXCEPT !.closePc = "idle"]
    /\ UNCHANGED <<vcpu, picVars, neVars, pitVars, busVars, devVars>>

\* VirtualMachine.Run starts one goroutine per VCPU and enters its wait loop
VmRunStart ==
    /\ Alive /\ vm.phase = "ready" /\ vm.runPc = "idle"
    /\ vm' = [vm EXCEPT !.runPc = "waiting", !.runI = 0]
    /\ vcpu' = [v \in VCPUIds |-> [vcpu[v] EXCEPT !.pc = "head"]]
    /\ UNCHANGED <<picVars, neVars, pitVars, busVars, devVars>>

\* Run's select takes "case <-vm.vcpusRunning"
VmRunRecv ==
    /\ Alive /\ vm.runPc = "waiting" /\ vm.runI < NumVCPUs
    /\ vm.vcpusRunning > 0
    /\ vm' = [vm EXCEPT !.vcpusRunning = @ - 1, !.runI = @ + 1]
    /\ UNCHANGED <<vcpu, picVars, neVars, pitVars, busVars, devVars>>

\* Run's select takes "case <-vm.stopChan": a closed channel is always ready
VmRunStopCase ==
    /\ Alive /\ vm.runPc = "waiting" /\ vm.runI < NumVCPUs
    /\ vm.stopClosed
    /\ vm' = [vm EXCEPT !.runI = @ + 1]
    /\ UNCHANGED <<vcpu, picVars, neVars, pitVars, busVars, devVars>>

\* Run's wait loop is over: "return nil"
VmRunReturn ==
    /\ Alive /\ vm.runPc = "waiting" /\ vm.runI = NumVCPUs
    /\ vm' = [vm EXCEPT !.runPc = "returned", !.runRet = "nil"]
    /\ UNCHANGED <<vcpu, picVars, neVars, pitVars, busVars, devVars>>

\* how a KVM_RUN call can end: the exit reasons the switch names (a port
\* access that unmasks IR0 and IR1 at the master PIC, one to a port no
\* device claims),
\* any other exit reason, and a failing ioctl
KvmOutcomes ==
    {"io_pic", "io", "mmio", "hlt", "shutdown", "fail_entry", "unknown", "other", "errno"}

\* the line a device raises while the VM runs
VmIrqLines == {1}

\* a device goroutine calls RaiseIRQ
VmRaiseIRQ(line) ==
    /\ Alive /\ vm.phase = "ready"
    /\ pic' = RaiseIRQ(pic, line)
    /\ UNCHANGED <<vm, vcpu, picRet, scen, neVars, pitVars, busVars, devVars>>

\* the ticker delivers a tick into its one-element channel
VcpuTick(v) ==
    /\ Alive
    /\ vcpu[v].ticker /\ ~vcpu[v].tick
    /\ vcpu' = [vcpu EXCEPT ![v].tick = TRUE]
    /\ UNCHANGED <<vm, picVars, neVars, pitVars, busVars, devVars>>

\* VCPU.Run returns ret: the deferred ticker.Stop() runs
VcpuReturn(c, ret) == [c EXCEPT !.pc = "done", !.ret = ret, !.ticker = FALSE, !.chk = "none"]

\* VCPU c starts the call of CheckForPendingInterrupts named chk; the calls
\* are made by VCPU 0 only (the tests "vcpu.id == 0" in Run), another VCPU
\* passes the call by
VcpuAfterCheck(c, id, chk) ==
    IF chk = "tick" THEN (IF id = 0 THEN [c EXCEPT !.pc = "has", !.chk = "pre"]
                          ELSE [c EXCEPT !.pc = "kvm", !.chk = "none"])
    ELSE IF chk = "pre" THEN [c EXCEPT !.pc = "kvm", !.chk = "none"]
    ELSE IF vm.copy = "kvm.go" THEN VcpuReturn(c, "nil")
    ELSE [c EXCEPT !.pc = "head", !.chk = "none"]

\* the select at the head of the loop takes "case <-vcpu.vm.stopChan"
VcpuStopCase(v) ==
    /\ Alive
    /\ vcpu[v].pc = "head" /\ vm.stopClosed
    /\ vcpu' = [vcpu EXCEPT ![v] = [VcpuReturn(@, "nil") EXCEPT !.stopAtHead = TRUE]]
    /\ UNCHANGED <<vm, picVars, neVars, pitVars, busVars, devVars>>

\* the select takes "case <-vcpu.ticker.C": Go chooses among the ready cases
\* at random, so a buffered tick can win over a closed stopChan; VCPU 0 goes
\* on to the interrupt check of the case, another VCPU to KVM_RUN
VcpuTickCase(v) ==
    /\ Alive
    /\ vcpu[v].pc = "head" /\ vcpu[v].tick
    /\ vcpu' = [vcpu EXCEPT ![v] =
                  [IF v = 0 THEN [@ EXCEPT !.pc = "has", !.chk = "tick"]
                            ELSE [@ EXCEPT !.pc = "kvm"]
                   EXCEPT !.tick = FALSE, !.stopAtHead = vm.stopClosed]]
    /\ UNCHANGED <<vm, picVars, neVars, pitVars, busVars, devVars>>

\* the select takes "default": no case is ready; VCPU 0 goes on to the
\* interrupt check before KVM_RUN
VcpuDefault(v) ==
    /\ Alive
    /\ vcpu[v].pc = "head" /\ ~vm.stopClosed /\ ~vcpu[v].tick
    /\ vcpu' = [vcpu EXCEPT ![v] =
                  [IF v = 0 THEN [@ EXCEPT !.pc = "has", !.chk = "pre"]
                            ELSE [@ EXCEPT !.pc = "kvm"]
                   EXCEPT !.stopAtHead = FALSE]]
    /\ UNCHANGED <<vm, picVars, neVars, pitVars, busVars, devVars>>

\* CheckForPendingInterrupts calls picDevice.HasPendingInterrupts()
VcpuHasPending(v) ==
    /\ Alive
    /\ vcpu[v].pc = "has"
    /\ vcpu' = [vcpu EXCEPT ![v] = IF HasPendingInterrupts(pic) THEN [@ EXCEPT !.pc = "get"]
                                   ELSE VcpuAfterCheck(@, v, @.chk)]
    /\ UNCHANGED <<vm, picVars, neVars, pitVars, busVars, devVars>>

\* CheckForPendingInterrupts calls picDevice.GetInterruptVector(); a vector
\* other than 0 is handed to InjectInterrupt
VcpuGetVector(v) ==
    /\ Alive
    /\ vcpu[v].pc = "get"
    /\ pic' = GetInterruptVector(pic).pic
    /\ vcpu' = [vcpu EXCEPT ![v] =
                  IF GetInterruptVector(pic).vector # 0
                  THEN [@ EXCEPT !.pc = "inject", !.vector = GetInterruptVector(pic).vector]
                  ELSE VcpuAfterCheck(@, v, @.chk)]
    /\ UNCHANGED <<vm, picRet, scen, neVars, pitVars, busVars, devVars>>

\* InjectInterrupt: the KVM_INTERRUPT ioctl on vcpu.fd; it fails on a
\* descriptor that Close has closed, and its error is only logged
VcpuInject(v, ok) ==
    /\ Alive
    /\ vcpu[v].pc = "inject"
    /\ ok => vcpu[v].fd
    /\ vcpu' = [vcpu EXCEPT ![v] =
                  VcpuAfterCheck([@ EXCEPT !.injected = IF ok THEN "ok" ELSE "error",
                                           !.vector = 0], v, @.chk)]
    /\ UNCHANGED <<vm, picVars, neVars, pitVars, busVars, devVars>>

\* the write the guest makes in the exit "io_pic": OCW1 0xFC to the master
\* data port
VmPicWrite ==
    VMHandleIO(VmDevices, PIC_MASTER_DATA_PORT, IODirectionOut, 1, 1, 1, 252,
               [werr |-> FALSE, now |-> AccessTime])

\* the KVM_RUN ioctl ends and the exit reason is read from vcpu.kvmRun. Once
\* Close has unmapped the block and set vcpu.kvmRun to nil the read faults,
\* so a VCPU that Close has reached leaves the ioctl with an error or the
\* process dies. Otherwise the switch on the exit reason runs: the handler
\* error of a port or memory access is logged and the loop goes on, a halt
\* exit starts the interrupt check of VCPU 0.
VcpuKvmRun(v, outcome) ==
    /\ Alive
    /\ vcpu[v].pc = "kvm"
    /\ IF outcome = "errno"
       THEN vcpu' = [vcpu EXCEPT ![v] = VcpuReturn(@, "err")] /\ UNCHANGED <<vm, pic>>
       ELSE IF ~vcpu[v].kvmRun
       THEN /\ vm' = [vm EXCEPT !.panicked = TRUE, !.fault = "nil dereference"]
            /\ UNCHANGED <<vcpu, pic>>
       ELSE IF outcome = "io_pic"
       THEN /\ vcpu' = [vcpu EXCEPT ![v].pc = "head"]
            /\ pic' = VmPicWrite.dev.pic
            /\ vm' = vm
       ELSE IF outcome \in {"io", "mmio", "other"}
       THEN vcpu' = [vcpu EXCEPT ![v].pc = "head"] /\ UNCHANGED <<vm, pic>>
       ELSE IF outcome = "hlt"
       THEN /\ vcpu' = [vcpu EXCEPT ![v] = IF v = 0 THEN [@ EXCEPT !.pc = "has", !.chk = "hlt"]
                                           ELSE VcpuAfterCheck(@, v, "hlt")]
            /\ UNCHANGED <<vm, pic>>
       ELSE vcpu' = [vcpu EXCEPT ![v] = VcpuReturn(@, "err")] /\ UNCHANGED <<vm, pic>>
    /\ UNCHANGED <<picRet, scen, neVars, pitVars, busVars, devVars>>

\* the goroutine Run started sends on vcpusRunning after VCPU.Run returned
VcpuSignal(v) ==
    /\ Alive
    /\ vcpu[v].pc = "done"
    /\ vcpu' = [vcpu EXCEPT ![v].pc = "signalled"]
    /\ vm' = [vm EXCEPT !.vcpusRunning = @ + 1]
    /\ UNCHANGED <<picVars, neVars, pitVars, busVars, devVars>>

VmNext ==
    \/ VmNewVCPU
    \/ VmNewFail
    \/ \E copy \in VcpuCopies : VmNewDone(copy)
    \/ VmStop
    \/ VmCloseStop
    \/ VmCloseUnmap
    \/ VmCloseFd
    \/ VmCloseRelease
    \/ VmRunStart
    \/ VmRunRecv
    \/ VmRunStopCase
    \/ VmRunReturn
    \/ \E line \in VmIrqLines : VmRaiseIRQ(line)
    \/ \E v \in VCPUIds : VcpuTick(v)
    \/ \E v \in VCPUIds : VcpuStopCase(v)
    \/ \E v \in VCPUIds : VcpuTickCase(v)
    \/ \E v \in VCPUIds : VcpuDefault(v)
    \/ \E v \in VCPUIds : VcpuHasPending(v)
    \/ \E v \in VCPUIds : VcpuGetVector(v)
    \/ \E v \in VCPUIds : \E ok \in BOOLEAN : VcpuInject(v, ok)
    \/ \E v \in VCPUIds : \E outcome \in KvmOutcomes : VcpuKvmRun(v, outcome)
    \/ \E v \in VCPUIds : VcpuSignal(v)

(***************************************************************************)
(* Port accesses of any width, made to the device handlers directly        *)
(***************************************************************************)
\* the guest makes at most this many accesses
MaxAccesses == 3

\* the widths KVM reports for a port access
AccessSizes == {1, 2, 4}

\* the accesses the guest makes, <<port, direction, value>> by device: mask
\* and ICW1 writes and a mask read for the PIC, a counter write and read for
\* the PIT, a character, LCR with DLAB and a receive read for the UART, index
\* and data writes and a data read for the RTC, data and status reads and a
\* write for the keyboard, START, a data-port read and a reset for the NE2000
DeviceAccesses ==
    [pic |-> {<<PIC_MASTER_DATA_PORT, IODirectionOut, 1>>,
              <<PIC_MASTER_CMD_PORT, IODirectionOut, 17>>,
              <<PIC_MASTER_DATA_PORT, IODirectionIn, 0>>},
     pit |-> {<<PIT_PORT_COUNTER0, IODirectionOut, 18>>,
              <<PIT_PORT_COUNTER0, IODirectionIn, 0>>},
     uart |-> {<<COM1_PORT_BASE, IODirectionOut, 65>>,
               <<COM1_PORT_BASE + LCR, IODirectionOut, LCR_DLAB + 3>>,
               <<COM1_PORT_BASE, IODirectionIn, 0>>},
     rtc |-> {<<RTC_PORT_INDEX, IODirectionOut, RTC_REG_B>>,
              <<RTC_PORT_DATA, IODirectionOut, 6>>,
              <<RTC_PORT_DATA, IODirectionIn, 0>>},
     keyboard |-> {<<KEYBOARD_PORT_DATA, IODirectionIn, 0>>,
                   <<KEYBOARD_PORT_STATUS, IODirectionIn, 0>>,
                   <<KEYBOARD_PORT_DATA, IODirectionOut, 237>>},
     ne2000 |-> {<<NE2000_BASE_PORT + NE2000_REG_CR, IODirectionOut, CR_STA + CR_RD0>>,
                 <<NE2000_BASE_PORT + NE2000_ASIC_OFFSET_DATA, IODirectionIn, 0>>,
                 <<NE2000_BASE_PORT + NE2000_ASIC_OFFSET_RESET, IODirectionOut, 0>>}]

\* the state of a device
DeviceState(device) ==
    CASE device = "pic" -> pic
      [] device = "pit" -> pit
      [] device = "uart" -> uart
      [] device = "rtc" -> rtc
      [] device = "keyboard" -> kbd
      [] device = "ne2000" -> ne

\* HandleIO of the device on state d
DeviceHandleIO(device, d, port, direction, size, val) ==
    CASE device = "pic" -> PICHandleIO(d, port, direction, size, val)
      [] device = "pit" ->
           IOResult(PITHandleIO(d, port, direction, size, val).pit,
                    PITHandleIO(d, port, direction, size, val).ret,
                    PITHandleIO(d, port, direction, size, val).err)
      [] device = "uart" -> SerialHandleIO(d, port, direction, size, val, FALSE)
      [] device = "rtc" -> RTCHandleIO(d, port, direction, size, val, AccessTime)
      [] device = "keyboard" -> KeyboardHandleIO(d, port, direction, size, val)
      [] device = "ne2000" ->
           NE2000HandleIO(d, (port - NE2000_BASE_PORT + 65536) % 65536, direction, size, val)

\* no access was made yet
NoAccessYet == [n |-> 0, device |-> "none", size |-> 1, err |-> FALSE, same |-> TRUE]

\* the device takes the state the handler left, and acc records the access:
\* its width, whether the handler returned an error and whether it left the
\* device as it was
Accessed(device, size, r) ==
    /\ pic' = IF device = "pic" THEN r.dev ELSE pic
    /\ pit' = IF device = "pit" THEN r.dev ELSE pit
    /\ uart' = IF device = "uart" THEN r.dev ELSE uart
    /\ rtc' = IF device = "rtc" THEN r.dev ELSE rtc
    /\ kbd' = IF device = "keyboard" THEN r.dev ELSE kbd
    /\ ne' = IF device = "ne2000" THEN r.dev ELSE ne
    /\ acc' = [n |-> acc.n + 1, device |-> device, size |-> size, err |-> r.err,
               same |-> (r.dev = DeviceState(device))]

\* one port access of the guest, of any width, handed to the device's
\* HandleIO. No handler calls its irqRaiser, the host interface or another
\* device from HandleIO, so everything but the device stays as it is.
DeviceAccess(device, a, size) ==
    /\ acc.n < MaxAccesses
    /\ Accessed(device, size, DeviceHandleIO(device, DeviceState(device), a[1], a[2], size, a[3]))
    /\ UNCHANGED <<picRet, scen, vmVars, neOp, neRet, neIrq, neTbcr, neTap, neReads, pitRet, pitMon,
                   busVars, uartRet, uartLog, rtcRet, run>>

DeviceNext ==
    \E device \in DOMAIN DeviceAccesses : \E a \in DeviceAccesses[device] :
        \E size \in AccessSizes : DeviceAccess(device, a, size)

(***************************************************************************)
(* Initial state and specifications                                        *)
(***************************************************************************)
Init ==
    /\ pic = NewPICDevice
    /\ picRet = NoRet
    /\ scen = 0
    /\ vm = NewVirtualMachine
    /\ vcpu = [v \in VCPUIds |-> NoVCPU]
    /\ ne = NewNE2000Device
    /\ neOp = "new"
    /\ neRet = NoRet
    /\ neIrq = FALSE
    /\ neTbcr = [lo |-> NoRet, hi |-> NoRet]
    /\ neTap = <<>>
    /\ neReads = 0
    /\ pit = NewPITDevice
    /\ pitRet = NoRet
    /\ pitMon = NoLatch
    /\ bus = NewIOBus
    /\ busPc = 0
    /\ busLog = NoAccess
    /\ uart = NewSerialPortDevice
    /\ uartRet = NoRet
    /\ uartLog = <<>>
    /\ rtc = NewRTCDevice
    /\ rtcRet = NoRet
    /\ run = NewRun
    /\ kbd = NewKeyboardDevice
    /\ acc = NoAccessYet

SpecPIC == Init /\ [][PicNext]_vars

SpecPICSlave == Init /\ [][PicSlaveNext]_vars

SpecVM == Init /\ [][VmNext]_vars

SpecNE == Init /\ [][NeNext]_vars

SpecNIC == Init /\ [][NicNext]_vars

SpecProm == Init /\ [][PromNext]_vars

SpecPIT == Init /\ [][PitNext]_vars

SpecBus == Init /\ [][BusNext]_vars

SpecUART == Init /\ [][UartNext]_vars

SpecRTC == Init /\ [][RtcNext]_vars

SpecRun == Init /\ [][RunNext]_vars

SpecDevices == Init /\ [][DeviceNext]_vars

(***************************************************************************)
(* Properties of the interrupt controller                                  *)
(***************************************************************************)
\* the lines of a chip that are set in IRR, clear in IMR and clear in ISR
C1_Pending(c) == {i \in 0..7 : Bit(c.irr, i) = 1 /\ Bit(c.imr, i) = 0 /\ Bit(c.isr, i) = 0}

C1_Min(S) == CHOOSE i \in S : \A j \in S : i <= j

\* what one acquire-vector call does from PIC p: the PIC q it leaves and the
\* value ret it returns
C1_Acquire(p, q, ret) ==
    LET md == C1_Pending(p.master) \ {2}
        sc == C1_Pending(p.slave)
    IN  IF md # {}
        THEN LET i == C1_Min(md)
             IN  /\ ret = (p.master.offset + i) % 256
                 /\ q.master = [p.master EXCEPT
                                  !.irr = ClrBit(@, i),
                                  !.isr = IF p.master.autoEOI THEN @ ELSE SetBit(@, i)]
                 /\ q.slave = p.slave
        ELSE IF 2 \in C1_Pending(p.master) /\ sc # {}
        THEN LET j == C1_Min(sc)
                 left == ClrBit(p.slave.irr, j)
             IN  /\ ret = (p.slave.offset + j) % 256
                 /\ q.slave = [p.slave EXCEPT
                                 !.irr = left,
                                 !.isr = IF p.slave.autoEOI THEN @ ELSE SetBit(@, j)]
                 /\ q.master = [p.master EXCEPT
                                  !.isr = IF p.master.autoEOI THEN @ ELSE SetBit(@, 2),
                                  !.irr = IF left = 0 THEN ClrBit(@, 2) ELSE @]
        ELSE ret = 0 /\ q = p

\* C1: in every reachable PIC state GetInterruptVector returns
\* master.offset + i for the lowest master line i other than 2 that is
\* requested, unmasked and not in service, clearing its IRR bit and setting
\* its ISR bit unless the master is in auto-EOI; with no such line and master
\* IR2 a candidate it returns slave.offset + j for the lowest slave candidate
\* j, clears slave IRR bit j, sets slave ISR bit j and master ISR bit 2
\* (unless auto-EOI) and clears master IRR bit 2 when the slave IRR has become
\* empty; otherwise it returns 0 and leaves the PIC unchanged.
C1_AcquireVector ==
    C1_Acquire(pic, GetInterruptVector(pic).pic, GetInterruptVector(pic).vector)

\* C2 (as amended): in the cascade scenario (nothing masked, auto-EOI off, no
\* EOI; RaiseIRQ(0), RaiseIRQ(3), RaiseIRQ(10)) the three acquisitions return
\* master.offset+0, master.offset+3 and slave.offset+2, and after the third
\* the master ISR is 0b00001101 (lines 0, 3 and the cascade line 2 in service)
\* and the slave ISR is 0b00000100.
C2_CascadeScenario ==
    /\ scen = 4 => picRet = pic.master.offset % 256
    /\ scen = 5 => picRet = (pic.master.offset + 3) % 256
    /\ scen = 6 => /\ picRet = (pic.slave.offset + 2) % 256
                   /\ pic.master.isr = 13
                   /\ pic.slave.isr = 4

\* C2 as the specification words it: the master ISR is 0b00000101 after the
\* third acquisition.
C2_AsStated ==
    /\ scen = 4 => picRet = pic.master.offset % 256
    /\ scen = 5 => picRet = (pic.master.offset + 3) % 256
    /\ scen = 6 => /\ picRet = (pic.slave.offset + 2) % 256
                   /\ pic.master.isr = 5
                   /\ pic.slave.isr = 4

\* the scenario ran to its third acquisition on an initialized PIC whose chips
\* have different vector offsets
C2_Witness ==
    /\ scen = 6
    /\ pic.master.offset = 8
    /\ pic.slave.offset = 112
    /\ picRet = 114

\* the lines C3 is checked for: master lines, the cascade line, slave lines
\* and lines outside 0..15
C3_Lines == {0, 2, 3, 7, 8, 10, 15, 16, 255}

\* what RaiseIRQ(line) does from PIC p, leaving PIC q
C3_Raise(p, q, line) ==
    IF line < 8
    THEN /\ q.master = [p.master EXCEPT
                          !.irr = IF Bit(p.master.imr, line) = 0 THEN SetBit(@, line) ELSE @]
         /\ q.slave = p.slave
    ELSE IF line < 16
    THEN IF Bit(p.slave.imr, line - 8) = 0
         THEN /\ q.slave = [p.slave EXCEPT !.irr = SetBit(@, line - 8)]
              /\ q.master = [p.master EXCEPT
                               !.irr = IF Bit(p.master.imr, 2) = 0 THEN SetBit(@, 2) ELSE @]
         ELSE q = p
    ELSE q = p

\* C3: RaiseIRQ(line) sets master IRR bit line exactly when line < 8 and the
\* bit is clear in the master IMR; for 8 <= line < 16 it sets slave IRR bit
\* line-8 exactly when that bit is clear in the slave IMR, and then sets
\* master IRR bit 2 exactly when master IMR bit 2 is clear; a masked line and
\* a line >= 16 leave the whole PIC unchanged.
C3_RaiseIRQ == \A line \in C3_Lines : C3_Raise(pic, RaiseIRQ(pic, line), line)

\* a slave line was requested while the master masks the cascade line: the
\* slave IRR holds the request and master IRR bit 2 stays clear
C3_Witness ==
    /\ picRet = NoRet
    /\ pic.slave.irr # 0
    /\ Bit(pic.master.imr, 2) = 1
    /\ Bit(pic.master.irr, 2) = 0

\* the ISR of chip c after an OCW2 byte val with the EOI bit set
C4_Cleared(c, val) ==
    IF Bit(val, 6) = 1 THEN ClrBit(c.isr, val % 8)
    ELSE IF c.isr = 0 THEN 0
    ELSE ClrBit(c.isr, C1_Min({i \in 0..7 : Bit(c.isr, i) = 1}))

\* the master clears its in-service cascade bit with OCW2 byte val
C4_ClearsCascade(c, val) ==
    /\ Bit(c.isr, 2) = 1
    /\ IF Bit(val, 6) = 1 THEN val % 8 = 2
       ELSE C1_Min({i \in 0..7 : Bit(c.isr, i) = 1}) = 2

\* what an EOI command does from PIC p, leaving PIC q. With anyCascade the
\* slave receives a non-specific EOI whenever the master clears its cascade
\* bit, otherwise only when a non-specific EOI clears it.
C4_EOI(p, q, port, val, anyCascade) ==
    LET fwd == /\ C4_ClearsCascade(p.master, val)
               /\ (anyCascade \/ Bit(val, 6) = 0)
    IN  IF port = PIC_MASTER_CMD_PORT
        THEN /\ q.master = [p.master EXCEPT !.isr = C4_Cleared(p.master, val), !.expectOCW = TRUE]
             /\ q.slave = [p.slave EXCEPT !.isr = IF fwd THEN C4_Cleared(p.slave, 32) ELSE @]
        ELSE /\ q.slave = [p.slave EXCEPT !.isr = C4_Cleared(p.slave, val), !.expectOCW = TRUE]
             /\ q.master = p.master

C4_EOIVals == {32, 96, 98, 99}

\* C4 (as amended): an OCW2 write with the EOI bit set clears exactly the ISR
\* bit named by the low 3 bits when the specific bit is set, and otherwise
\* exactly the lowest set ISR bit of the chip (nothing when ISR is 0); the
\* slave receives one non-specific EOI exactly when a non-specific EOI on the
\* master clears the cascade line (index 2); IRR and IMR of both chips are
\* unchanged.
C4_EndOfInterrupt ==
    \A port \in {PIC_MASTER_CMD_PORT, PIC_SLAVE_CMD_PORT} : \A val \in C4_EOIVals :
        C4_EOI(pic, PICWrite(pic, port, val), port, val, FALSE)

\* C4 as the specification words it: whenever the bit cleared on the master
\* is the cascade line, a non-specific EOI is also applied to the slave.
C4_AsStated ==
    \A port \in {PIC_MASTER_CMD_PORT, PIC_SLAVE_CMD_PORT} : \A val \in C4_EOIVals :
        C4_EOI(pic, PICWrite(pic, port, val), port, val, TRUE)

\* the cascade line and a slave line are in service, and the specific EOI of
\* line 2 written to the master command port clears the cascade bit and
\* leaves the slave line in service
C4_Witness ==
    /\ Bit(pic.master.isr, 2) = 1
    /\ pic.slave.isr # 0
    /\ LET q == PICWrite(pic, PIC_MASTER_CMD_PORT, 98)
       IN  /\ Bit(q.master.isr, 2) = 0
           /\ q.slave.isr = pic.slave.isr

(***************************************************************************)
(* Properties of the VM container and the VCPU loop                        *)
(***************************************************************************)
\* C5: VirtualMachine.Close is safe in every lifecycle position (a second
\* call, a call after Stop, the call on the failure path of
\* NewVirtualMachine): no call panics and every resource is released at most
\* once.
C5_CloseIsSafe ==
    /\ vm.fault # "close of closed channel"
    /\ vm.munmaps <= 1 /\ vm.tapCloses <= 1 /\ vm.vmFDCloses <= 1 /\ vm.kvmFDCloses <= 1
    /\ \A v \in VCPUIds : vcpu[v].fdCloses <= 1

\* C6: VirtualMachine.Run returns only after every VCPU task it started has
\* left VCPU.Run.
C6_RunJoinsVCPUs ==
    vm.runPc = "returned" => \A v \in VCPUIds : vcpu[v].pc \in {"done", "signalled"}

\* C7: when every VCPU has joined, VirtualMachine.Run returns an error if some
\* VCPU.Run returned a fatal error, and nil only when every VCPU ended
\* normally.
C7_RunReportsFailure ==
    (vm.runPc = "returned" /\ \A v \in VCPUIds : vcpu[v].pc = "signalled")
        => (vm.runRet = "nil" <=> \A v \in VCPUIds : vcpu[v].ret = "nil")

\* C8: a VCPU whose select at the head of the loop ran with the stop channel
\* already closed does not go on to KVM_RUN.
C8_StopBeforeKvmRun ==
    \A v \in VCPUIds : vcpu[v].pc = "kvm" => ~vcpu[v].stopAtHead

(***************************************************************************)
(* Properties of the NE2000                                                *)
(***************************************************************************)
\* C9: after every guest write to ISR or to IMR the level of the NIC
\* interrupt line equals ((ISR & IMR) # 0).
C9_IrqFollowsStatus ==
    neOp \in {"out-isr", "out-imr"} => (neIrq <=> BitAnd(ne.isr, ne.imr) # 0)

\* the bytes written to ISR: every combination of PTX, RXE, RDC and RST, and 0xFF
C10_Written ==
    {a + b + c + d : a \in {0, ISR_PTX}, b \in {0, ISR_RXE}, c \in {0, ISR_RDC}, d \in {0, ISR_RST}}
        \cup {255}

\* C10: a guest write of byte w to ISR leaves ISR equal to (old ISR AND NOT
\* w), every bit set in w cleared and no other bit changed, and a following
\* ISR read returns that value.
C10_WriteOneToClear ==
    pageSelect(ne) = 0 =>
        \A w \in C10_Written :
            LET wr == NE2000HandleIO(ne, NE2000_REG_ISR, IODirectionOut, 1, w)
                rd == NE2000HandleIO(wr.dev, NE2000_REG_ISR, IODirectionIn, 1, 0)
            IN  /\ \A k \in 0..7 : Bit(wr.dev.isr, k) = (IF Bit(w, k) = 1 THEN 0 ELSE Bit(ne.isr, k))
                /\ ~wr.err /\ ~rd.err
                /\ rd.ret = wr.dev.isr
                /\ rd.dev = wr.dev

\* after a guest write to ISR the packet-transmitted bit is what is left
\* pending: it reads back, and writing it clears the register
C10_Witness ==
    /\ neOp = "out-isr"
    /\ pageSelect(ne) = 0
    /\ ne.isr = ISR_PTX
    /\ NE2000HandleIO(ne, NE2000_REG_ISR, IODirectionIn, 1, 0).ret = ISR_PTX
    /\ NE2000HandleIO(ne, NE2000_REG_ISR, IODirectionOut, 1, ISR_PTX).dev.isr = 0

\* the byte count the driver programmed: (TBCR1 << 8) | TBCR0
C11_ByteCount == neTbcr.hi * 256 + neTbcr.lo

\* both byte-count registers were written since the last reset
C11_Programmed == neTbcr.lo # NoRet /\ neTbcr.hi # NoRet

\* the frame sizes the transmit path accepts
C11_FrameSizes == 60..1514

\* C11: while the NIC is started, a CR write with TXP set, with a byte count
\* in [60, 1514] and TPSR*256 + byte count within the on-card RAM, causes
\* exactly one WritePacket whose payload is the byte-count bytes of RAM from
\* TPSR*256 on, and sets ISR transmit-ok (PTX).
C11_TransmitSuccess ==
    (/\ Started(ne)
     /\ C11_Programmed
     /\ C11_ByteCount \in C11_FrameSizes
     /\ ne.txPageStart * 256 + C11_ByteCount <= ne2000PacketRAMSize)
    => LET r == NE2000HandleIO(ne, NE2000_REG_CR, IODirectionOut, 1, CR_STA + CR_TXP + CR_RD2)
       IN  /\ TxPackets(ne, CR_STA + CR_TXP + CR_RD2)
                = << [i \in 1..C11_ByteCount |-> RamAt(ne, ne.txPageStart * 256 + i - 1)] >>
           /\ BitAnd(r.dev.isr, ISR_PTX) # 0

\* C12: a CR write with TXP set whose byte count is below 60 or above 1514,
\* or whose TPSR*256 + byte count exceeds the RAM size, delivers no packet
\* to the host interface, sets ISR transmit-error (TXE) and not transmit-ok,
\* and leaves CR.TXP clear on the next CR read.
C12_TransmitFailure ==
    (/\ Started(ne)
     /\ C11_Programmed
     /\ BitAnd(ne.isr, ISR_PTX) = 0
     /\ \/ C11_ByteCount \notin C11_FrameSizes
        \/ ne.txPageStart * 256 + C11_ByteCount > ne2000PacketRAMSize)
    => LET r == NE2000HandleIO(ne, NE2000_REG_CR, IODirectionOut, 1, CR_STA + CR_TXP + CR_RD2)
           rd == NE2000HandleIO(r.dev, NE2000_REG_CR, IODirectionIn, 1, 0)
       IN  /\ TxPackets(ne, CR_STA + CR_TXP + CR_RD2) = <<>>
           /\ BitAnd(r.dev.isr, ISR_TXE) # 0
           /\ BitAnd(r.dev.isr, ISR_PTX) = 0
           /\ BitAnd(rd.ret, CR_TXP) = 0

\* the receive ring is set up: CURR and BNRY lie in [PSTART, PSTOP)
C13_Ring(d) ==
    /\ d.pageStart <= d.currPage /\ d.currPage < d.pageStop
    /\ d.pageStart <= d.boundary /\ d.boundary < d.pageStop

\* next-CURR for a packet of L bytes: CURR + ceil((L+4)/256), wrapped at
\* PSTOP back to PSTART
C13_NextCurr(d, L) ==
    LET n == d.currPage + ((L + 4 + 255) \div 256)
    IN  IF n >= d.pageStop THEN d.pageStart + (n - d.pageStop) ELSE n

\* the RAM address of the k-th byte stored from page CURR on, continuing at
\* PSTART*256 when the copy crosses PSTOP
C13_RingAddr(d, k) ==
    LET a == d.currPage * 256 + k
    IN  IF a >= d.pageStop * 256 THEN a - (d.pageStop - d.pageStart) * 256 ELSE a

\* C13: when the NIC is started and the host interface delivers a packet P
\* of length L <= 1514 with next-CURR # BNRY, RAM at CURR*256 holds the
\* header [PRX, next-CURR, (L+4) low, (L+4) high] followed by the bytes of
\* P, CURR becomes next-CURR and ISR packet-received (PRX) is set.
C13_ReceiveIntoRing ==
    \A P \in Packets :
        (/\ Started(ne)
         /\ C13_Ring(ne)
         /\ P.len <= 1514
         /\ C13_NextCurr(ne, P.len) # ne.boundary)
        => LET d == receivePacket(ne, P)
           IN  /\ RamAt(d, C13_RingAddr(ne, 0)) = ISR_PRX
               /\ RamAt(d, C13_RingAddr(ne, 1)) = C13_NextCurr(ne, P.len)
               /\ RamAt(d, C13_RingAddr(ne, 2)) = (P.len + 4) % 256
               /\ RamAt(d, C13_RingAddr(ne, 3)) = (P.len + 4) \div 256
               /\ \A i \in 0..(P.len - 1) :
                      RamAt(d, C13_RingAddr(ne, 4 + i)) = PacketByte(P, i)
               /\ d.currPage = C13_NextCurr(ne, P.len)
               /\ BitAnd(d.isr, ISR_PRX) # 0

\* C14: when a packet arrives while the NIC is started and storing it would
\* make next-CURR equal BNRY, the packet is dropped: ISR overflow-warning
\* (OVW) is set, packet-received is not set by that arrival, CURR and the
\* ring contents are unchanged.
C14_ReceiveOverflow ==
    \A P \in Packets :
        (/\ Started(ne)
         /\ C13_Ring(ne)
         /\ C13_NextCurr(ne, P.len) = ne.boundary)
        => LET d == receivePacket(ne, P)
           IN  /\ BitAnd(d.isr, ISR_OVW) # 0
               /\ BitAnd(d.isr, ISR_PRX) = BitAnd(ne.isr, ISR_PRX)
               /\ d.currPage = ne.currPage
               /\ d.packetRAM = ne.packetRAM

\* the device after the OUTs of ws, a sequence of <<offset, value>> pairs
RECURSIVE C15_Outs(_, _)
C15_Outs(d, ws) ==
    IF ws = <<>> THEN d
    ELSE C15_Outs(NE2000HandleIO(d, ws[1][1], IODirectionOut, 1, ws[1][2]).dev, Tail(ws))

\* n successive 1-byte reads of the data port: the device after them and the
\* bytes returned
RECURSIVE C15_ReadsFrom(_, _, _)
C15_ReadsFrom(d, n, bytes) ==
    IF n = 0 THEN [dev |-> d, bytes |-> bytes]
    ELSE LET r == NE2000HandleIO(d, NE2000_ASIC_OFFSET_DATA, IODirectionIn, 1, 0)
         IN  C15_ReadsFrom(r.dev, n - 1, Append(bytes, r.ret))

C15_Reads(d, n) == C15_ReadsFrom(d, n, <<>>)

\* C15: for a NIC constructed with MAC m, after {STOP, abort-DMA} in CR,
\* RSAR = 0, RBCR = 6 and a remote-read command, six successive 1-byte reads
\* of the data port return m[0], ..., m[5] in that order and ISR
\* remote-DMA-complete is set afterwards.
C15_MacReadSequence ==
    ne.command = CR_STP + CR_RD2 =>
        LET d == C15_Outs(ne, << <<NE2000_REG_RSAR0, 0>>, <<NE2000_REG_RSAR1, 0>>,
                                 <<NE2000_REG_RBCR0, 6>>, <<NE2000_REG_RBCR1, 0>>,
                                 <<NE2000_REG_CR, CR_RD0>> >>)
            r == C15_Reads(d, 6)
        IN  /\ r.bytes = NE2000_DEFAULT_MAC
            /\ BitAnd(r.dev.isr, ISR_RDC) # 0

\* C16: immediately after NewNE2000Device, and after a guest write of any
\* value to offset 0x1F from any prior state, CR has STOP set with page 0
\* selected, ISR equals the reset flag only, IMR = 0, PSTART = 0x46,
\* PSTOP = 0x80, BNRY = PSTART, CURR = PSTART and TPSR = 0x40.
C16_ResetState(d) ==
    /\ BitAnd(d.command, CR_STP) # 0
    /\ pageSelect(d) = 0
    /\ d.isr = ISR_RST
    /\ d.imr = 0
    /\ d.pageStart = 70
    /\ d.pageStop = 128
    /\ d.boundary = d.pageStart
    /\ d.currPage = d.pageStart
    /\ d.txPageStart = 64

C16_PowerOnAndReset ==
    /\ C16_ResetState(NewNE2000Device)
    /\ \A val \in {0, 255} :
          C16_ResetState(NE2000HandleIO(ne, NE2000_ASIC_OFFSET_RESET, IODirectionOut, 1, val).dev)

\* C17: after a control-port latch command for counter c, the next two
\* reads of that counter's port return the low byte and then the high byte
\* of the value counter c held at the instant of the latch command,
\* regardless of any writes to that counter's port made in between.
C17_LatchedRead ==
    /\ pitMon.reads >= 1 => pitMon.lo = pitMon.value % 256
    /\ pitMon.reads = 2 => pitMon.hi = pitMon.value \div 256

\* counter 0 was latched holding 0x3412, its port was written before the
\* reads, and both reads were made
C17_Witness ==
    /\ pitMon.counter = 0
    /\ pitMon.value = 18 + 52 * 256
    /\ pitMon.wrote
    /\ pitMon.reads = 2
    /\ pitMon.lo = 18 /\ pitMon.hi = 52

\* the mask bytes written: none, one line, mixed patterns, all lines
C18_Bytes == {0, 1, 90, 165, 255}

\* C18: once a chip's initialization sequence has completed (counter back
\* to 0), for every byte v a write of v to that chip's data port stores v as
\* IMR and a following data-port read returns v, with IRR, ISR and vector
\* offset unchanged.
C18_ImrRoundTrip ==
    \A port \in {PIC_MASTER_DATA_PORT, PIC_SLAVE_DATA_PORT} :
        LET c == pic[PortChip(port)]
        IN  c.icwCount = 0 =>
                \A v \in C18_Bytes :
                    LET q == PICWrite(pic, port, v)
                        w == q[PortChip(port)]
                    IN  /\ w.imr = v
                        /\ PICRead(q, port) = v
                        /\ w.irr = c.irr /\ w.isr = c.isr /\ w.offset = c.offset

\* the master went through its initialization words (vector base 8), line 0
\* was masked afterwards, the mask reads back and a request is pending
C18_Witness ==
    /\ pic.master.icwCount = 0
    /\ pic.master.offset = 8
    /\ pic.master.imr = 1
    /\ pic.master.irr # 0
    /\ PICRead(pic, PIC_MASTER_DATA_PORT) = 1

\* the device the RegisterDevice calls made so far left on a port: the one of
\* the latest call whose range holds the port, "none" when no range does
C19_RegisteredFor(port) ==
    LET S == {k \in 1..busPc : Registrations[k][1] <= port /\ port <= Registrations[k][2]}
    IN  IF S = {} THEN "none"
        ELSE Registrations[CHOOSE k \in S : \A j \in S : j <= k][3]

\* C19: IOBus.HandleIO returns an 'unhandled port' error without calling any
\* device handler if no device is registered for the port; otherwise it
\* calls the handler of exactly the device registered for that port, once,
\* with the same (port, direction, width, buffer), and returns that
\* handler's result.
C19_Routing ==
    \A port \in BusPorts : \A direction \in {IODirectionIn, IODirectionOut} :
      \A size \in {1, 2} : \A val \in {0, 90} : \A result \in HandlerResults :
        LET r == BusHandleIO(bus, port, direction, size, val, result)
            dev == C19_RegisteredFor(port)
        IN  IF dev = "none"
            THEN r.err = "unhandled port" /\ r.calls = <<>>
            ELSE /\ r.calls = <<[device |-> dev, port |-> port, direction |-> direction,
                                 size |-> size, val |-> val]>>
                 /\ r.err = result

\* after all registrations an access to port 0x40, which the PIC's range and
\* then the PIT's range covered, reached the PIT once and its error came back
C19_Witness ==
    /\ busPc = Len(Registrations)
    /\ busLog.port = PIT_PORT_COUNTER0
    /\ Len(busLog.calls) = 1
    /\ busLog.calls[1].device = "pit"
    /\ busLog.calls[1].port = PIT_PORT_COUNTER0
    /\ busLog.err = "device error"

\* the ports the bus maps after construction, by device
C20_PortMap ==
    [port \in {32, 33, 160, 161} |-> "pic"]
    @@ [port \in 64..67 \cup {97} |-> "pit"]
    @@ [port \in {96, 100} |-> "keyboard"]
    @@ [port \in {112, 113} |-> "rtc"]
    @@ [port \in 768..799 |-> "ne2000"]
    @@ [port \in 1016..1023 |-> "serial"]

\* C20: after VM construction the I/O bus maps exactly the ports 0x20-0x21
\* and 0xA0-0xA1 to the PIC, 0x40-0x43 and 0x61 to the PIT, 0x60 and 0x64 to
\* the keyboard, 0x70-0x71 to the RTC, 0x300-0x31F to the NE2000 and
\* 0x3F8-0x3FF to COM1; every other port is unmapped, so a guest access to
\* it fails at the bus with 'unhandled port' and reaches no device.
C20_PortMapAfterConstruction ==
    busPc = Len(Registrations) =>
        /\ bus = C20_PortMap
        /\ \A port \in BusPorts \ DOMAIN C20_PortMap :
              \A result \in HandlerResults :
                LET r == BusHandleIO(bus, port, IODirectionIn, 1, 0, result)
                IN  r.err = "unhandled port" /\ r.calls = <<>>

(***************************************************************************)
(* Claims about VCPU.Run, the serial port, the RTC and the PIC             *)
(***************************************************************************)
C21_Devices == VmDevices

\* C21: an access error of the guest is not fatal to the VCPU. Whenever
\* KVM_RUN has returned with a port-I/O exit for which the I/O bus gives an
\* error, or with an MMIO exit, VCPU.Run does not return: the error is logged
\* and the loop is back at its head for the next KVM_RUN call; after an
\* unhandled MMIO read every byte of the guest data buffer is 0xFF. A Run
\* whose last log entry is such an error has returned no error: it is in
\* its loop, or the stop channel was closed and it returned nil at the head.
C21_AccessErrorsNotFatal ==
    /\ run.logged \in {"io error", "mmio error"} =>
          IF run.pc = "returned" THEN run.ret = "nil" /\ run.stopClosed
          ELSE run.ret = "none"
    /\ run.pc = "kvm" =>
          \A e \in RunExits :
             LET x == VcpuExit(run, C21_Devices, e)
             IN  /\ (e.reason = "io"
                      /\ VMHandleIO(C21_Devices, e.port, e.direction, e.size, e.count,
                                    IoDataLen(e.size), e.val, e.env).err)
                     => x.run.pc = "head" /\ x.run.ret = "none"
                        /\ x.run.logged = "io error"
                 /\ e.reason = "mmio"
                     => /\ x.run.pc = "head" /\ x.run.ret = "none"
                        /\ x.run.logged = "mmio error"
                        /\ x.dev = C21_Devices
                        /\ ~e.isWrite =>
                              /\ Len(x.run.data) = Len(e.data)
                              /\ \A i \in 1..Len(e.data) : x.run.data[i] = 255

\* C21 witness: after a byte written to the unmapped port 0x400 was refused
\* by the bus the VCPU is inside its next KVM_RUN call, and that call can
\* end with a 4-byte MMIO read
C21_Witness ==
    /\ run.pc = "kvm" /\ run.runs >= 2
    /\ run.exit = "io" /\ run.logged = "io error" /\ run.ret = "none"
    /\ \E e \in RunExits :
          /\ e.reason = "mmio" /\ ~e.isWrite /\ Len(e.data) = 4
          /\ VcpuExit(run, C21_Devices, e).run.data = <<255, 255, 255, 255>>

C22_FatalReasons == {"shutdown", "fail_entry", "unknown"}

\* C22: after a shutdown, fail-entry or unknown exit VCPU.Run has returned
\* (it makes no further KVM_RUN call) a non-nil error that carries the
\* hardware reason of the control block.
C22_FatalExits ==
    run.pc = "kvm" =>
        \A e \in RunExits :
            e.reason \in C22_FatalReasons =>
                LET x == VcpuExit(run, C21_Devices, e).run
                IN  x.pc = "returned" /\ x.ret = "err" /\ x.errHw = e.hwReason

\* C23: a halt exit terminates the VCPU normally. Whenever KVM_RUN returns
\* with a halt exit and the PIC has no interrupt pending, VCPU.Run queries
\* the PIC (which changes nothing) and returns nil, with the serial sink
\* holding what the guest wrote before it halted.
C23_HaltTerminates ==
    run.pc = "kvm" =>
        \A e \in RunExits :
            (e.reason = "hlt" /\ ~HasPendingInterrupts(pic)) =>
                LET x == VcpuExit(run, C21_Devices, e)
                IN  /\ x.run.pc = "returned" /\ x.run.ret = "nil"
                    /\ x.run.injected = run.injected
                    /\ x.dev = C21_Devices

\* the bytes the sink must hold after the writes of log from position i on,
\* dlab being LCR.DLAB before them: the values written to offset 0 while
\* DLAB = 0 (and taken by the writer), in order
RECURSIVE C24_Forwarded(_, _, _)
C24_Forwarded(log, i, dlab) ==
    IF i > Len(log) THEN <<>>
    ELSE LET offset == log[i][1]
             val == log[i][2]
             taken == log[i][3]
         IN  IF offset = LCR
             THEN C24_Forwarded(log, i + 1, BitAnd(val, LCR_DLAB) # 0)
             ELSE IF offset = RHR_THR_DLL /\ ~dlab /\ taken
             THEN <<val>> \o C24_Forwarded(log, i + 1, dlab)
             ELSE C24_Forwarded(log, i + 1, dlab)

\* C24: UART transmit and DLAB gating. After any sequence of guest writes to
\* COM1 the output sink holds exactly, in order, the values written to
\* offset 0 while LCR.DLAB was 0 (a byte the writer behind the device
\* refuses is reported to the guest as an error and is not in the sink). A
\* write to offset 0 while DLAB = 1 stores the value in the divisor latch
\* and leaves the sink alone; a forwarded write appends the value to the
\* sink and leaves THRE and TEMT set in the line-status register.
C24_TransmitAndDlab ==
    /\ uart.sink = C24_Forwarded(uartLog, 1, FALSE)
    /\ uart.dlabActive = (BitAnd(uart.lcr, LCR_DLAB) # 0)
    /\ \A val \in {65, 66, 255} :
          LET r == SerialHandleIO(uart, COM1_PORT_BASE, IODirectionOut, 1, val, FALSE)
          IN  /\ ~r.err
              /\ IF uart.dlabActive
                 THEN r.dev = [uart EXCEPT !.thrDll = val]
                 ELSE /\ r.dev.sink = Append(uart.sink, val)
                      /\ BitAnd(r.dev.lsr, LSR_THRE + LSR_TEMT) = LSR_THRE + LSR_TEMT
                      /\ r.dev.thrDll = uart.thrDll

\* C24 witness: 'A' was forwarded, then DLAB was set and 'B' written to
\* offset 0: the sink holds only 'A' and the divisor latch holds 'B'
C24_Witness ==
    /\ uart.sink = <<65>>
    /\ uart.dlabActive /\ uart.thrDll = 66
    /\ Len(uartLog) = 3 /\ uartLog[3] = <<RHR_THR_DLL, 66, TRUE>>
    /\ BitAnd(uart.lsr, LSR_THRE + LSR_TEMT) = LSR_THRE + LSR_TEMT

C25_SelectC(r) == RTCHandleIO(r, RTC_PORT_INDEX, IODirectionOut, 1, RTC_REG_C, CHOOSE t \in RtcTimes : TRUE).dev

\* C25: RTC register C is clear-on-read. From every reachable state, with
\* index 0x0C selected, a read of port 0x71 returns the stored value of
\* register C and leaves 0 stored, so that a second read returns 0; after a
\* Tick with periodic interrupts enabled the value read has PF and IRQF; a
\* guest write of any byte to register C leaves the device unchanged.
C25_ClearOnRead ==
    /\ rtc.registers[RTC_REG_C] \in {0, RTC_C_PF + RTC_C_IRQF}
    /\ \A now \in RtcTimes :
          LET sel == C25_SelectC(rtc)
              first == RTCHandleIO(sel, RTC_PORT_DATA, IODirectionIn, 1, 0, now)
              second == RTCHandleIO(first.dev, RTC_PORT_DATA, IODirectionIn, 1, 0, now)
              ticked == RTCTick(sel, pic, RTC_IRQ).dev
              after == RTCHandleIO(ticked, RTC_PORT_DATA, IODirectionIn, 1, 0, now)
          IN  /\ sel.currentRegisterIndex = RTC_REG_C
              /\ ~first.err /\ first.ret = rtc.registers[RTC_REG_C]
              /\ first.dev = [sel EXCEPT !.registers[RTC_REG_C] = 0]
              /\ ~second.err /\ second.ret = 0 /\ second.dev = first.dev
              /\ BitAnd(rtc.registers[RTC_REG_B], RTC_B_PIE) # 0 =>
                    /\ after.ret = BitOr(rtc.registers[RTC_REG_C], RTC_C_PF + RTC_C_IRQF)
                    /\ after.dev.registers[RTC_REG_C] = 0
              /\ \A val \in RtcDataOuts \cup {0} :
                    LET w == RTCHandleIO(sel, RTC_PORT_DATA, IODirectionOut, 1, val, now)
                    IN  ~w.err /\ w.dev = sel

\* C25 witness: the guest has just read 0xC0 from register C, set by a Tick
\* with PIE enabled, and the stored value is 0 again
C25_Witness ==
    /\ rtc.currentRegisterIndex = RTC_REG_C
    /\ rtcRet = RTC_C_PF + RTC_C_IRQF
    /\ rtc.registers[RTC_REG_C] = 0
    /\ BitAnd(rtc.registers[RTC_REG_B], RTC_B_PIE) # 0

\* initialization programs <<ICW1, ICW2, ICW4>>: cascade or single, with or
\* without ICW4, edge or level; ICW4 plain, with auto-EOI, with
\* special-fully-nested, with both
C26_Programs == {<<17, 32, 1>>, <<17, 40, 3>>, <<16, 32, 1>>, <<19, 32, 17>>,
                 <<18, 32, 1>>, <<25, 32, 19>>}

C26_Chips == {"master", "slave"}

C26_CmdPort(which) == IF which = "master" THEN PIC_MASTER_CMD_PORT ELSE PIC_SLAVE_CMD_PORT

C26_DataPort(which) == IF which = "master" THEN PIC_MASTER_DATA_PORT ELSE PIC_SLAVE_DATA_PORT

\* the counter after ICW2 as the claim has it: 2 for cascade with ICW4, 0 for
\* cascade without, 3 for single with ICW4, else 0
C26_AfterIcw2Stated(c) ==
    IF BitAnd(c.modeFlags, PIC_ICW1_SNGL) = 0
    THEN (IF BitAnd(c.modeFlags, PIC_ICW1_IC4) # 0 THEN 2 ELSE 0)
    ELSE (IF BitAnd(c.modeFlags, PIC_ICW1_IC4) # 0 THEN 3 ELSE 0)

\* the counter after ICW2: 2 for cascade, whether or not ICW4 is needed
C26_AfterIcw2(c) ==
    IF BitAnd(c.modeFlags, PIC_ICW1_SNGL) = 0 THEN 2
    ELSE (IF BitAnd(c.modeFlags, PIC_ICW1_IC4) # 0 THEN 3 ELSE 0)

C26_AfterIcw3(c) == IF BitAnd(c.modeFlags, PIC_ICW1_IC4) # 0 THEN 3 ELSE 0

\* the ICW4 write on a device whose chip `which` has counter 3
C26_Icw4Step(p, which, icw4) ==
    LET q == PICWrite(p, C26_DataPort(which), icw4)
    IN  /\ p[which].icwCount = 3
        /\ q[which].autoEOI = (BitAnd(icw4, PIC_ICW4_AEOI) # 0)
        /\ q[which].sfnm = (BitAnd(icw4, PIC_ICW4_SFNM) # 0)
        /\ q[which].icwCount = 0
        /\ q = [p EXCEPT ![which].autoEOI = q[which].autoEOI, ![which].sfnm = q[which].sfnm,
                         ![which].icwCount = 0, ![which].modeFlags = q[which].modeFlags]

\* the ICW3 write on a device whose chip `which` has counter 2, and the
\* ICW4 write after it
C26_Icw3Step(p, which, icw3, icw4) ==
    LET q == PICWrite(p, C26_DataPort(which), icw3)
    IN  /\ p[which].icwCount = 2
        /\ q = [p EXCEPT ![which].icwCount = C26_AfterIcw3(p[which])]
        /\ q[which].icwCount = 3 => C26_Icw4Step(q, which, icw4)

\* the sequencing property, for a given table AfterIcw2 of the counter after
\* ICW2. From the current PIC state, an ICW1 to a chip followed by
\* data-port writes to it: the write at counter 1 stores the value as the
\* vector offset and sets the counter by the table; the write at counter 2
\* stores nothing and sets the counter to 3 if ICW4 is needed, else to 0;
\* the write at counter 3 takes auto-EOI and special-fully-nested from the
\* value and sets the counter to 0. None of these writes changes IMR, IRR,
\* ISR or the other chip. A chip found inside its sequence takes the next
\* data-port write the same way.
C26_Sequence(AfterIcw2(_)) ==
    \A which \in C26_Chips :
        /\ \A prog \in C26_Programs :
              LET p1 == PICWrite(pic, C26_CmdPort(which), prog[1])
                  p2 == PICWrite(p1, C26_DataPort(which), prog[2])
              IN  /\ p1[which].icwCount = 1 /\ InInit(p1[which])
                  /\ p2 = [p1 EXCEPT ![which].offset = prog[2],
                                     ![which].icwCount = AfterIcw2(p1[which])]
                  /\ p2[which].icwCount = 2 => C26_Icw3Step(p2, which, 4, prog[3])
                  /\ p2[which].icwCount = 3 => C26_Icw4Step(p2, which, prog[3])
        /\ InInit(pic[which]) =>
              \A val \in DataVals(C26_DataPort(which)) :
                  /\ PICWrite(pic, C26_DataPort(which), val)[which].imr = pic[which].imr
                  /\ pic[which].icwCount = 1 =>
                        PICWrite(pic, C26_DataPort(which), val)[which].offset = val
                  /\ pic[which].icwCount = 2 => C26_Icw3Step(pic, which, val, 3)
                  /\ pic[which].icwCount = 3 => C26_Icw4Step(pic, which, val)

\* C26 as stated: initialization-word sequencing in which ICW2 on a cascaded
\* chip that needs no ICW4 ends the sequence (counter 0).
C26_AsStated == C26_Sequence(C26_AfterIcw2Stated)

\* operation commands the guest may write between two initialization
\* words: non-specific and specific EOI (OCW2), register select (OCW3)
C26_Ocws == {32, 98, 10}

\* a sequence that an operation command interrupted: in every state, and
\* after ICW1 followed by an operation command, a chip with a counter other
\* than 0 and expectOCW set takes a data-port byte as the mask. The byte is
\* stored in IMR; the vector offset, the counter, the flags and the other
\* chip stay as they are.
C26_Interrupted ==
    \A which \in C26_Chips :
        /\ (pic[which].icwCount # 0 /\ pic[which].expectOCW) =>
              \A val \in {0, 8, 255} :
                  PICWrite(pic, C26_DataPort(which), val) = [pic EXCEPT ![which].imr = val]
        /\ \A ocw \in C26_Ocws :
              LET p1 == PICWrite(PICWrite(pic, C26_CmdPort(which), 17), C26_CmdPort(which), ocw)
              IN  /\ p1[which].icwCount = 1 /\ p1[which].expectOCW
                  /\ PICWrite(p1, C26_DataPort(which), 8) = [p1 EXCEPT ![which].imr = 8]

\* C26 amended: initialization-word sequencing, as long as no operation
\* command is written to the command port between the words. ICW2 on a
\* cascaded chip always sets the counter to 2, so that ICW3 is consumed next
\* whether or not ICW4 is needed; on a single chip the counter goes to 3 if
\* ICW4 is needed, else to 0. ICW3 stores nothing and ICW4 sets auto-EOI and
\* special-fully-nested as stated; IMR is not modified by any of these
\* writes. After an operation command inside the sequence a data-port byte
\* is stored in IMR instead and leaves the vector offset and the counter
\* unchanged.
C26_IcwSequence == C26_Sequence(C26_AfterIcw2) /\ C26_Interrupted

\* C26 witness: the master is at the end of its sequence (ICW1 0x11, ICW2
\* 0x08, ICW3 0x04 taken, ICW4 next) while the slave has completed a sequence
\* that set auto-EOI; reprogrammed as a cascaded chip without ICW4 the slave
\* would expect ICW3 after ICW2, and an EOI written to the master now would
\* make it take the ICW4 byte for its mask
C26_Witness ==
    /\ InInit(pic.master) /\ pic.master.icwCount = 3
    /\ pic.master.offset = 8 /\ pic.master.imr = 0
    /\ pic.slave.icwCount = 0 /\ pic.slave.offset = 112 /\ pic.slave.autoEOI
    /\ PICWrite(PICWrite(pic, PIC_SLAVE_CMD_PORT, 16),
                PIC_SLAVE_DATA_PORT, 32).slave.icwCount = 2
    /\ PICWrite(PICWrite(pic, PIC_MASTER_CMD_PORT, 32),
                PIC_MASTER_DATA_PORT, 3).master.imr = 3

\* command bytes with bit 0x10: the four flag combinations, level-triggered,
\* and bytes that also carry the EOI and OCW3 bits
C27_Icw1 == {16, 17, 18, 19, 25, 59, 255}

C27_Other(which) == IF which = "master" THEN "slave" ELSE "master"

\* C27: ICW1 reset. From every reachable state, a command-port write with
\* bit 0x10 set leaves the addressed chip with IMR = 0, IRR = 0, ISR = 0,
\* initialization counter 1, auto-EOI and special-fully-nested false and the
\* single/cascade and need-ICW4 flags of the written value; its vector
\* offset and register selection stay, and the other chip is unchanged.
C27_Icw1Reset ==
    \A which \in C26_Chips : \A v \in C27_Icw1 :
        LET q == PICWrite(pic, C26_CmdPort(which), v)
        IN  /\ q[which].imr = 0 /\ q[which].irr = 0 /\ q[which].isr = 0
            /\ q[which].icwCount = 1 /\ InInit(q[which])
            /\ ~q[which].autoEOI /\ ~q[which].sfnm
            /\ BitAnd(q[which].modeFlags, PIC_ICW1_SNGL) = BitAnd(v, PIC_ICW1_SNGL)
            /\ BitAnd(q[which].modeFlags, PIC_ICW1_IC4) = BitAnd(v, PIC_ICW1_IC4)
            /\ q[which].offset = pic[which].offset
            /\ q[which].readRegSelect = pic[which].readRegSelect
            /\ q[C27_Other(which)] = pic[C27_Other(which)]

\* C27 witness: the master, programmed before (offset 0x08), has just taken
\* ICW1 again while the slave, unmasked, has a line in service
C27_Witness ==
    /\ pic.master.icwCount = 1 /\ InInit(pic.master)
    /\ pic.master.offset = 8
    /\ pic.master.imr = 0 /\ pic.master.irr = 0 /\ pic.master.isr = 0
    /\ pic.slave.isr # 0 /\ pic.slave.imr = 0 /\ pic.slave.offset = 112

\* C28: OCW3 register selection. A command-port write with bit 0x10 clear
\* and bit 0x08 set is OCW3; with its read-register bit set and the select
\* bit 0 the following command-port reads return IRR, with the select bit 1
\* they return the chip's ISR; with the poll bit set nothing changes.
C28_Ocw3Selection ==
    \A which \in C26_Chips :
        LET irrSel == PICWrite(pic, C26_CmdPort(which), 8 + PIC_OCW3_RR_CMD)
            isrSel == PICWrite(pic, C26_CmdPort(which),
                               8 + PIC_OCW3_RR_CMD + PIC_OCW3_RIS_CMD)
            poll == PICWrite(pic, C26_CmdPort(which),
                             8 + PIC_OCW3_POLL_CMD + PIC_OCW3_RR_CMD + PIC_OCW3_RIS_CMD)
        IN  /\ PICRead(irrSel, C26_CmdPort(which)) = pic[which].irr
            /\ PICRead(isrSel, C26_CmdPort(which)) = pic[which].isr
            /\ poll = [pic EXCEPT ![which].expectOCW = TRUE]
            /\ irrSel[which].irr = pic[which].irr /\ irrSel[which].isr = pic[which].isr
            /\ isrSel[which].irr = pic[which].irr /\ isrSel[which].isr = pic[which].isr

\* C29: no acquired interrupt is dropped. Whenever CheckForPendingInterrupts
\* of VCPU 0 finds the PIC pending and its GetInterruptVector call changes
\* the PIC (a line moves from IRR to in-service), a vector is handed to
\* InjectInterrupt, and it is the vector the PIC returned.
C29_NoAcquiredDropped ==
    (HasPendingInterrupts(pic) /\ GetInterruptVector(pic).pic # pic) =>
        /\ InjectedVector(pic, 0) # NoRet
        /\ InjectedVector(pic, 0) = GetInterruptVector(pic).vector
        /\ CheckForPendingInterrupts(pic, 0) = GetInterruptVector(pic).pic

\* C30: pending check and acquisition agree. In every PIC state reached by
\* raises, port writes and acquisitions, HasPendingInterrupts is true if and
\* only if GetInterruptVector called next acquires a line (moves it from IRR
\* towards in-service, changing the PIC).
C30_PendingIffAcquired ==
    HasPendingInterrupts(pic) <=> (GetInterruptVector(pic).pic # pic)

(***************************************************************************)
(* Claims about in-service priority, the NE2000 command register and DMA,  *)
(* the PIT latch and two-byte write, the UART registers and access widths  *)
(***************************************************************************)
\* the system line (0..15) GetInterruptVector takes out of the request
\* registers of p, NoRet when it takes none
C31_AcquiredLine(p) ==
    LET q == GetInterruptVector(p).pic
    IN  IF q.slave.irr # p.slave.irr
        THEN 8 + LowestSetBit(BitAndNot(p.slave.irr, q.slave.irr))
        ELSE IF q.master.irr # p.master.irr
        THEN LowestSetBit(BitAndNot(p.master.irr, q.master.irr))
        ELSE NoRet

\* C31: with auto-EOI off, while master line i is in service (its ISR bit
\* is set, i.e. it was acquired and no EOI has cleared it), GetInterruptVector
\* acquires no line of lower priority: no master line j > i, and no slave
\* line when i < 2.
C31_InServiceBlocks ==
    \A i \in 0..7 :
        (~pic.master.autoEOI /\ Bit(pic.master.isr, i) = 1) =>
            LET l == C31_AcquiredLine(pic)
            IN  /\ ~(l \in 0..7 /\ l > i)
                /\ (i < PIC_MASTER_SLAVE_IRQ => ~(l \in 8..15))

\* command bytes with the STOP bit: alone, with START, with TXP (each with
\* the abort-DMA bit, as drivers write them)
C32_StopVals == {CR_STP + CR_RD2, CR_STP + CR_STA + CR_RD2, CR_STP + CR_TXP + CR_RD2}

\* C32: every CR write whose value has the STOP bit set, whether or not the
\* NIC was already stopped, leaves the ISR reset flag set, leaves START and
\* TXP clear in CR and clears the remote-DMA byte counter; it does not
\* modify IMR, PSTART, PSTOP, BNRY, CURR or TPSR.
C32_StopCommand ==
    \A v \in C32_StopVals :
        LET d == NE2000HandleIO(ne, NE2000_REG_CR, IODirectionOut, 1, v).dev
        IN  /\ BitAnd(d.isr, ISR_RST) # 0
            /\ BitAnd(d.command, CR_STA + CR_TXP) = 0
            /\ d.dmaByteCount = 0
            /\ d.imr = ne.imr
            /\ d.pageStart = ne.pageStart
            /\ d.pageStop = ne.pageStop
            /\ d.boundary = ne.boundary
            /\ d.currPage = ne.currPage
            /\ d.txPageStart = ne.txPageStart

\* command bytes that select page 0, 1 or 2 together with STOP, START, TXP
\* or a remote read
C33_Vals == {CR_STP + CR_RD2, CR_STP + CR_RD2 + CR_PS0, CR_STA + CR_RD2 + CR_PS0,
             CR_STA + CR_TXP + CR_RD2 + CR_PS0, CR_STA + CR_RD0 + CR_PS0,
             CR_STA + CR_RD2 + CR_PS1}

\* C33: after a guest write of any value v to CR, whatever its other bits
\* and whatever the previous CR, the active register page equals bits 6-7
\* of v: a CR read returns those page bits and the next access to offset 3
\* addresses that page's register (the third MAC byte on page 1, BNRY on
\* the other pages).
C33_PageSelectImmediate ==
    \A v \in C33_Vals :
        LET d == NE2000HandleIO(ne, NE2000_REG_CR, IODirectionOut, 1, v).dev
            cr == NE2000HandleIO(d, NE2000_REG_CR, IODirectionIn, 1, 0).ret
            w == NE2000HandleIO(d, NE2000_REG_BNRY, IODirectionOut, 1, 9).dev
        IN  /\ pageSelect(d) = v \div 64
            /\ BitAnd(cr, CR_PS0 + CR_PS1) = BitAnd(v, CR_PS0 + CR_PS1)
            /\ IF v \div 64 = 1
               THEN w.macAddress[NE2000_REG_BNRY] = 9 /\ w.boundary = d.boundary
               ELSE w.boundary = 9 /\ w.macAddress = d.macAddress

\* byte counts programmed in RBCR, and the commands that arm a remote read:
\* the one of TestNE2000_PROMMACAddressRead and one that also starts the NIC
C34_Counts == {1, 2, 12}

C34_ReadCmds == {CR_RD1 + CR_STP, CR_STA + CR_RD0}

\* the device after the guest programs a remote read of n bytes from 0
C34_Program(d, n, cmd) ==
    C15_Outs(d, << <<NE2000_REG_RSAR0, 0>>, <<NE2000_REG_RSAR1, 0>>,
                   <<NE2000_REG_RBCR0, n>>, <<NE2000_REG_RBCR1, 0>>,
                   <<NE2000_REG_CR, cmd>> >>)

C34_Armed(d, n) ==
    BitAnd(d.command, CR_RD2) = 0 /\ d.dmaByteCount = n /\ d.dmaAddress = 0

\* k successive reads of the data port, counted from device d: the device
\* after them, the bytes returned, and whether before each of them ISR
\* remote-DMA-complete had the level rdc and RD2 was clear
RECURSIVE C34_Reads(_, _, _, _, _)
C34_Reads(d, k, rdc, bytes, pending) ==
    IF k = 0 THEN [dev |-> d, bytes |-> bytes, pending |-> pending]
    ELSE LET r == NE2000HandleIO(d, NE2000_ASIC_OFFSET_DATA, IODirectionIn, 1, 0)
         IN  C34_Reads(r.dev, k - 1, rdc, Append(bytes, r.ret),
                       pending /\ BitAnd(d.isr, ISR_RDC) = rdc
                               /\ BitAnd(d.command, CR_RD2) = 0)

\* C34: with a remote read armed and a byte count n > 0 programmed in RBCR,
\* ISR remote-DMA-complete is not set by any of the first n-1 data-port
\* reads and is set by the n-th; at that moment CR reads back with RD2 set,
\* and for a PROM read of n = 12 from address 0 the reads return each MAC
\* byte twice in order.
C34_RemoteDmaCompletion ==
    \A n \in C34_Counts : \A cmd \in C34_ReadCmds :
        LET d == C34_Program(ne, n, cmd)
            r == C34_Reads(d, n, BitAnd(d.isr, ISR_RDC), <<>>, TRUE)
        IN  C34_Armed(d, n) =>
              /\ r.pending
              /\ BitAnd(r.dev.isr, ISR_RDC) # 0
              /\ BitAnd(NE2000HandleIO(r.dev, NE2000_REG_CR, IODirectionIn, 1, 0).ret, CR_RD2) # 0
              /\ n = 12 =>
                    r.bytes = [i \in 1..12 |-> NE2000_DEFAULT_MAC[((i - 1) \div 2) + 1]]

\* a two-byte remote read that the guest ran to its end: the last access
\* was the second data-port read, the flag was clear when the read was
\* armed and is set now
C34_Witness ==
    /\ neOp = "in"
    /\ ne.dmaAddress = 2 /\ ne.dmaByteCount = 0
    /\ BitAnd(ne.isr, ISR_RDC) # 0
    /\ BitAnd(ne.command, CR_RD2) # 0
    /\ neRet = promData(1)
    /\ C34_Armed(C34_Program(ne, 12, CR_STA + CR_RD0), 12)

\* C35: in every reachable state in which the NIC is started (CR.START = 1
\* and CR.STOP = 0), PSTART <= BNRY < PSTOP and PSTART <= CURR < PSTOP hold,
\* including directly after power-on or reset followed by a START command
\* with no pointer register reprogrammed by the guest.
C35_RingPointers ==
    Started(ne) =>
        /\ ne.pageStart <= ne.boundary /\ ne.boundary < ne.pageStop
        /\ ne.pageStart <= ne.currPage /\ ne.currPage < ne.pageStop

\* command bytes the guest may write: STOP with START (bare, with RD2, with
\* TXP on page 1), neither bit, STOP alone, START alone
C36_Vals == {CR_STP + CR_STA, CR_STP + CR_STA + CR_RD2,
             CR_STP + CR_STA + CR_TXP + CR_PS0, CR_RD2,
             CR_STP + CR_RD2, CR_STA + CR_RD2}

\* what a CR read of d returns has STOP and START both set
C36_Both(d) ==
    BitAnd(NE2000HandleIO(d, NE2000_REG_CR, IODirectionIn, 1, 0).ret, CR_STP + CR_STA)
        = CR_STP + CR_STA

C36_Write(d, v) == NE2000HandleIO(d, NE2000_REG_CR, IODirectionOut, 1, v).dev

\* C36: in every state reachable from power-on by any sequence of guest
\* port accesses and resets, a CR read returns a value in which the STOP bit
\* and the START bit are not both set; this is checked in the reachable
\* states and after one and two further CR writes and a reset from each.
C36_NeverStopAndStart ==
    /\ ~C36_Both(ne)
    /\ ~C36_Both(NE2000HandleIO(ne, NE2000_ASIC_OFFSET_RESET, IODirectionOut, 1, 0).dev)
    /\ \A v1 \in C36_Vals :
          /\ ~C36_Both(C36_Write(ne, v1))
          /\ \A v2 \in C36_Vals : ~C36_Both(C36_Write(C36_Write(ne, v1), v2))

\* the guest wrote a command to a NIC that is now started, and a write of
\* STOP together with START to it leaves it stopped
C36_Witness ==
    /\ neOp = "out"
    /\ Started(ne)
    /\ C36_Write(ne, CR_STP + CR_STA + CR_RD2).command = CR_STP + CR_RD2

\* the device after an OUT of val to port, and an IN from port
C37_Out(p, port, val) == PITHandleIO(p, port, IODirectionOut, 1, val).pit

C37_In(p, port) == PITHandleIO(p, port, IODirectionIn, 1, 0)

\* C37: once the two bytes of a latched value have been read from a
\* counter's port, the counter is back in the read-write mode it had before
\* the latch command, so a following read of that port returns the
\* counter's current value and a following write to that port is accepted
\* (it is not ignored).
C37_LatchReverts ==
    \A i \in {0, 1} :
        pit.counters[i].rwMode # PIT_RW_LATCH =>
            LET port == PIT_PORT_COUNTER0 + i
                m == pit.counters[i].rwMode
                latched == C37_Out(pit, PIT_PORT_COMMAND, i * 64)
                c == C37_In(C37_In(latched, port).pit, port).pit
            IN  /\ c.counters[i].rwMode = m
                /\ C37_In(c, port).ret =
                      IF m = PIT_RW_MSB THEN c.counters[i].value \div 256
                      ELSE c.counters[i].value % 256
                /\ C37_Out(c, port, 77) # c

\* the device after k reads of port
RECURSIVE C38_Reads(_, _, _)
C38_Reads(p, port, k) ==
    IF k = 0 THEN p ELSE C38_Reads(C37_In(p, port).pit, port, k - 1)

\* the bytes written and the numbers of reads made between the two writes
C38_Bytes == {<<18, 52>>, <<255, 1>>}

C38_ReadCounts == 0..2

\* C38: for a counter in LSB-then-MSB mode, writing byte lo and then byte
\* hi to its port leaves reload = value = hi*256 + lo, with value unchanged
\* after the first byte alone, also when one or more reads of the same
\* counter port occur between the two writes.
C38_TwoByteWrite ==
    \A i \in {0, 1} : \A w \in C38_Bytes : \A k \in C38_ReadCounts :
        LET port == PIT_PORT_COUNTER0 + i
            p0 == C37_Out(pit, PIT_PORT_COMMAND, i * 64 + 54)
            p1 == C37_Out(p0, port, w[1])
            p2 == C37_Out(C38_Reads(p1, port, k), port, w[2])
        IN  /\ p1.counters[i].value = p0.counters[i].value
            /\ p2.counters[i].reload = w[2] * 256 + w[1]
            /\ p2.counters[i].value = w[2] * 256 + w[1]

\* the UART after the OUTs of ws, a sequence of <<offset, value>> pairs
RECURSIVE C39_Outs(_, _)
C39_Outs(s, ws) ==
    IF ws = <<>> THEN s
    ELSE C39_Outs(SerialHandleIO(s, COM1_PORT_BASE + ws[1][1], IODirectionOut, 1,
                                 ws[1][2], FALSE).dev, Tail(ws))

C39_ReadOffset1(s) == SerialHandleIO(s, COM1_PORT_BASE + IER_DLH, IODirectionIn, 1, 0, FALSE).ret

\* interrupt-enable bytes and divisors (low byte, high byte) the guest writes
C39_Enables == {5, 15}

C39_Divisors == {<<1, 0>>, <<128, 1>>}

\* C39: after the guest writes a value e to IER (offset 1 with DLAB = 0),
\* then sets LCR.DLAB, writes any values to the divisor latch low and high
\* bytes and clears LCR.DLAB, a read of offset 1 returns e; symmetrically a
\* later IER write does not change the divisor-latch high byte read back
\* with DLAB = 1.
C39_IerSurvivesDivisor ==
    \A e \in C39_Enables : \A dv \in C39_Divisors :
        LET s1 == C39_Outs(uart, << <<LCR, 3>>, <<IER_DLH, e>>, <<LCR, LCR_DLAB + 3>>,
                                    <<RHR_THR_DLL, dv[1]>>, <<IER_DLH, dv[2]>>,
                                    <<LCR, 3>> >>)
            s2 == C39_Outs(s1, << <<IER_DLH, e>>, <<LCR, LCR_DLAB + 3>> >>)
        IN  /\ C39_ReadOffset1(s1) = e
            /\ C39_ReadOffset1(s2) = dv[2]

\* the widths other than 1, and every port the devices answer on
C40_Widths == {0, 2, 4, 8}

C40_Ports ==
    [pic |-> {PIC_MASTER_CMD_PORT, PIC_MASTER_DATA_PORT, PIC_SLAVE_CMD_PORT,
              PIC_SLAVE_DATA_PORT},
     pit |-> {PIT_PORT_COUNTER0, PIT_PORT_COUNTER1, PIT_PORT_COUNTER2, PIT_PORT_COMMAND,
              PIT_PORT_STATUS},
     uart |-> COM1_PORT_BASE..COM1_PORT_END,
     rtc |-> {RTC_PORT_INDEX, RTC_PORT_DATA},
     keyboard |-> {KEYBOARD_PORT_DATA, KEYBOARD_PORT_STATUS},
     ne2000 |-> NE2000_BASE_PORT..(NE2000_BASE_PORT + NE2000_ASIC_OFFSET_RESET)]

\* C40: for each device handler (PIC, PIT, UART, RTC, keyboard, NE2000), a
\* port access with width other than 1, read or write, to any port of the
\* device, in any device state, returns an error and leaves every piece of
\* that device's state unchanged (the bytes the serial writer received
\* included); this holds for the accesses the guest made and for every
\* further access it could make.
C40_UnsupportedWidth ==
    /\ acc.size # 1 => (acc.err /\ acc.same)
    /\ \A device \in DOMAIN C40_Ports : \A port \in C40_Ports[device] :
          \A direction \in {IODirectionIn, IODirectionOut} : \A size \in C40_Widths :
              LET r == DeviceHandleIO(device, DeviceState(device), port, direction, size, 255)
              IN  r.err /\ r.dev = DeviceState(device) /\ r.ret = NoRet

\* the guest wrote a character to the UART with width 1, unmasked a PIC
\* line or started the NIC, and then made a two-byte access to the UART,
\* which was refused
C40_Witness ==
    /\ acc.n = MaxAccesses
    /\ acc.device = "uart" /\ acc.size = 2 /\ acc.err /\ acc.same
    /\ uart.sink = <<65>>
    /\ (pic.master.imr = 1 \/ Started(ne))

=============================================================================
